---- MODULE Spec2Model ----
\* A model of node-amqp-bus: the bus client of lib/client.js (connection
\* lifecycle, consume with ack/nack) and the bus listener of lib/listener.js
\* (handler registry, listen, dispatch by routing key).
\*
\* The specifications share the variables:
\*   Spec          the client: consume, deliveries with their handlers in
\*                 flight, close, connection errors and reconnection;
\*   SpecCreate    createClient from its call on, then Spec;
\*   SpecPublish   publish through errors, reconnection and close;
\*   SpecCalls     setupQueue, consume, publish and close of one caller
\*                 through errors and reconnection;
\*   SpecShutdown  close(forceClose) and the connection's 'close' event;
\*   SpecListener  the listener: addHandler, concurrent listen calls, and
\*                 deliveries dispatched through the client's consume wrapper;
\*   SpecListenerReconnect  the listener while its client reconnects;
\*   SpecRegistry  the handler registry alone;
\*   SpecSetup     setupQueue and Client.listen, one transport call at a time;
\*   SpecReconnect reconnection when a lost connection emits 'error' again;
\*   SpecVariants  the listener that wraps generator handlers at registration
\*                 (unnamed/part_002) next to the one of lib/listener.js;
\*   SpecCallback  the consume wrapper with a completion callback
\*                 (unnamed/part_004).
\*
\* Conventions
\*   - null is 0; connections are numbered 1, 2, ... in the order the transport
\*     opened them; the channel created on connection c is channel c.
\*   - the transport (amqplib) is the environment: a connection emits 'error'
\*     at most once (in SpecReconnect: possibly once more while it is still
\*     observed) and is unusable afterwards; closing a connection that is
\*     no longer usable is rejected by the transport.
\*   - JavaScript objects used as maps (handlers, handlers[queue]) are modelled
\*     by their own properties in insertion order; queue names and routing keys
\*     are assumed not to be names of Object.prototype members.
EXTENDS Integers, Sequences, FiniteSets, TLC

\* ---------------------------------------------------------------- bounds
MaxDeliveries == 2
MaxErrors == 1
MaxAdds == 3
MaxRegistryAdds == 4
MaxListens == 2
MaxDispatches == 1
MaxSpurious == 1
MaxPublishes == 2
MaxCloseCalls == 2
MaxSetups == 1
MaxRepeats == 1
MaxCallbacks == 2

\* ---------------------------------------------------------------- inputs
Queues == {"qA", "qB"}
Keys == {"k1", "k2"}
HandlerIds == {"h1", "h2"}
\* what the user's handler does in one invocation:
\*   "ok"    its completion resolves
\*   "throw" it throws / its completion rejects
\*   "cberr" it calls its third argument with an error (legacy callback style)
Behaviours == {"ok", "throw", "cberr"}
\* a delivery is an undecodable payload (its handler is never invoked, so the
\* handler's behaviour is fixed) or a decodable one with a handler behaviour
Payloads == {<<FALSE, "ok">>} \cup {<<TRUE, b>> : b \in Behaviours}
\* the handlers registered in the specification of the listener: one
\* handler per routing key
ListenerAdds ==
  {<<q, "k1", "h1">> : q \in Queues} \cup {<<q, "k2", "h2">> : q \in Queues}
ListenArgs == {<<"X", "o1">>, <<"Y", "o2">>}
\* the payload of a connection 'error' event: an Error, or an object whose
\* constructor is EventEmitter
ErrorPayloads == {"error", "emitter"}
\* the messages given to publish, as JavaScript values
Messages == {"{toto: 'test'}", "'test'", "1"}
Exchanges == {"X", "Y"}
\* options.reconnectTimeout, in clock ticks
ReconnectTimeout == 2

VARIABLES
  \* ---- client (lib/client.js)
  connection,     \* busClient.connection
  channel,        \* busClient.channel
  conns,          \* number of transport connections opened so far
  createPc,       \* position of the createClient call
  dead,           \* connections that errored or were closed
  observers,      \* observers[c]: number of 'error' observers on connection c
  closeObservers, \* closeObservers[c]: number of 'close' observers on it
  timers,         \* pending setTimeout(_reconnect, ...) timers: for each its
                  \* delay and the time it has waited, in clock ticks
  reconnects,     \* the _connect coroutines started by those timers
  errorEvents,    \* number of connection 'error' events carrying an Error
  spuriousEvents, \* number of 'error' events carrying an EventEmitter
  closePc,        \* position of the close() call
  closeOps,       \* number of Connection.close() calls made on the transport
  secondClose,    \* outcome of a close() call made after close() completed
  clientEvents,   \* events emitted by the client, counted by name
  consumers,      \* <<channel, queue>> pairs registered by consume
  deliveries,     \* one record per message handed to _consumeMessage
  publishes,      \* one record per call of publish
  setupCalls,     \* one record per call of setupQueue made by the caller
  \* ---- listener (lib/listener.js)
  queues,         \* instance.queues
  handlers,       \* instance.handlers
  lclient,        \* instance.client
  injected,       \* options.client was given to createListener
  clientsCreated, \* number of clients created by listen
  relays,         \* relays[c]: consume_error -> handle_error relays on client c
  listens,        \* one record per call of listen
  calls,          \* calls[i]: setupQueue / consume calls issued by listen call i
  listenerEvents, \* events emitted by the listener, counted by name
  lastDispatch,   \* the last delivery dispatched by the listener
  dispatches,     \* number of deliveries dispatched
  firstSeen,      \* history: queues in order of first registration
  lastGiven,      \* history: handler of the last addHandler per <<queue, key>>
  replaced,       \* history: <<queue, key>> pairs whose handler was replaced
  adds,           \* number of addHandler calls
  \* ---- the two variants of the listener's handler wrapping, side by side
  handlersGiven,  \* history: the handler given to addHandler per <<queue, key>>
  handlersReg,    \* handlers of the variant that wraps at registration
  handlersDisp,   \* handlers of the variant that wraps at dispatch
  variantRun,     \* the last dispatch: its input and the result in each variant
  callbackDeliveries, \* deliveries of the consume variant with a callback
  \* ---- shutdown of the client (close(forceClose), connection 'close' event)
  closeCalls,     \* one record per call of close(forceClose)
  exits,          \* number of terminations of the host process
  closeEvents,    \* number of connection 'close' events that occurred
  cleanupEvents,  \* number of close_cleanup events emitted by the client
  subscribed,     \* a close_cleanup subscriber with a cleanup to run exists
  cleanup,        \* the subscriber's cleanup: "none", "running" or "done"
  graceTimers,    \* pending cleanup-grace timers
  shutdownLog     \* the shutdown steps in the order they happened

clientVars == <<connection, channel, conns, createPc, dead, observers,
                closeObservers, timers, reconnects, errorEvents,
                spuriousEvents, closePc, closeOps, secondClose, clientEvents,
                consumers, deliveries, publishes, setupCalls>>
listenerVars == <<queues, handlers, lclient, injected, clientsCreated, relays,
                  listens, calls, listenerEvents, lastDispatch, dispatches,
                  firstSeen, lastGiven, replaced, adds>>
shutdownVars == <<closeCalls, exits, closeEvents, cleanupEvents, subscribed,
                  cleanup, graceTimers, shutdownLog>>
variantVars == <<handlersGiven, handlersReg, handlersDisp, variantRun,
                 callbackDeliveries>>
vars == <<clientVars, listenerVars, shutdownVars, variantVars>>
nonClientVars == <<listenerVars, shutdownVars, variantVars>>
nonListenerVars == <<clientVars, shutdownVars, variantVars>>
nonShutdownVars == <<listenerVars, variantVars>>
nonVariantVars == <<clientVars, listenerVars, shutdownVars>>

\* ---------------------------------------------------------------- helpers
Range(s) == {s[i] : i \in DOMAIN s}

Bump(ev, name) == [ev EXCEPT ![name] = @ + 1]

\* ================================================================ client
NoClientEvents ==
  [n \in {"connected", "connection_error", "consume_error"} |-> 0]

\* client.js:83  JSON.parse(contentString) succeeds or throws
Decodes(valid) == valid

\* client.js:91  yield handler(content, message.fields): the handler gets two
\* arguments only, so a handler that calls its third argument calls undefined
\* and throws a TypeError: the yield fails as for a handler that throws.
HandlerOutcome(beh) ==
  IF beh = "ok" THEN "resolved" ELSE "rejected"

\* busClient.channel.ack(message) / .nack(message): evaluated on the client's
\* channel field at the time of the call; a null channel makes the property
\* access throw a TypeError and _consumeMessage's completion rejects.
Ack(d, ch) ==
  IF ch = 0 THEN [d EXCEPT !.st = "done", !.rejected = TRUE]
  ELSE [d EXCEPT !.st = "done", !.acks = @ + 1, !.ackChan = ch]

Nack(d, ch) ==
  IF ch = 0 THEN [d EXCEPT !.st = "done", !.rejected = TRUE]
  ELSE [d EXCEPT !.st = "done", !.nacks = @ + 1, !.ackChan = ch]

\* a decode failure that requeues the message instead of dropping it
DecodeFailureRequeues(d, ch) ==
  Nack([d EXCEPT !.events = Append(@, "invalid")], ch)

\* client.js:84-88  the catch block of JSON.parse
DecodeFailure(d, ch) ==
  Ack([d EXCEPT !.events = Append(@, "invalid")], ch)

\* client.js:92-95  the catch block of the handler
HandlerFailure(d, ch) ==
  Nack([d EXCEPT !.events = Append(@, "handler")], ch)

\* client.js:96
HandlerSuccess(d, ch) == Ack(d, ch)

NewDelivery(q, c, valid, beh) ==
  [queue |-> q, chan |-> c, valid |-> valid, beh |-> beh, st |-> "new",
   hcalls |-> 0, acks |-> 0, nacks |-> 0, ackChan |-> 0, events |-> <<>>,
   rejected |-> FALSE]

\* a consumer that sets some deliveries aside (those whose handler calls a
\* completion callback) instead of starting their handler when they arrive
ConsumeMessageStartSettingAside(d, ch) ==
  IF ~Decodes(d.valid) THEN DecodeFailure(d, ch)
  ELSE IF d.beh = "cberr" THEN [d EXCEPT !.st = "waiting"]
  ELSE [d EXCEPT !.st = "handling", !.hcalls = @ + 1]

\* a consumer that handles the deliveries of a queue one at a time: a
\* delivery waits while the handler of an earlier one is running
ConsumeMessageStartSerialized(d, ch) ==
  IF ~Decodes(d.valid) THEN DecodeFailure(d, ch)
  ELSE IF \E i \in DOMAIN deliveries :
            deliveries[i].queue = d.queue /\ deliveries[i].st = "handling"
       THEN [d EXCEPT !.st = "waiting"]
       ELSE [d EXCEPT !.st = "handling", !.hcalls = @ + 1]

\* client.js:78-91  _consumeMessage up to its first suspension: the callback
\* is co.wrap'ed, so it runs in the turn of the delivery up to its first
\* yield, whose operand handler(content, message.fields) is the invocation
\* of the handler
ConsumeMessageStart(d, ch) ==
  IF ~Decodes(d.valid) THEN DecodeFailure(d, ch)
  ELSE [d EXCEPT !.st = "handling", !.hcalls = @ + 1]

\* client.js:91-96  _consumeMessage resumed by the handler's completion
ConsumeMessageResume(d, ch) ==
  IF HandlerOutcome(d.beh) = "rejected" THEN HandlerFailure(d, ch)
  ELSE HandlerSuccess(d, ch)

\* number of consume_error events emitted between two states of a delivery
ConsumeErrors(old, new) ==
  Len(new.events) - Len(old.events)

Live(c) == c # 0 /\ c \notin dead

\* setTimeout(f, delay): a timer that has not waited yet
NewTimer(delay) == [delay |-> delay, waited |-> 0]

\* a timer fires once it has waited for its delay, never earlier
Expired(t) == t.waited >= t.delay

\* a connect that registers no 'close' observer
RegisterCloseObserverNever(obs, c) == obs

\* the connect sequence registers one 'close' observer
\* (handleExitOnConnectionClose) on the connection c it established; the
\* client of lib/client.js registers the 'error' observer only, the 'close'
\* observer is described with the shutdown of the client
RegisterCloseObserver(obs, c) == [obs EXCEPT ![c] = @ + 1]

\* the value busClient as an argument of _onDisconnection: an object created
\* from EventEmitter.prototype, whose constructor is EventEmitter
BusClientValue == "emitter"

\* a handler that filters nothing out
IsEventEmitterNever(err) == FALSE

\* client.js:145  err.constructor === EventEmitter
IsEventEmitter(err) == err = "emitter"

ClientInit ==
  /\ connection = 1
  /\ channel = 1
  /\ conns = 1
  /\ createPc = "returned"
  /\ dead = {}
  /\ observers = <<1>>
  /\ closeObservers = <<1>>
  /\ timers = <<>>
  /\ reconnects = <<>>
  /\ errorEvents = 0
  /\ spuriousEvents = 0
  /\ closePc = "idle"
  /\ closeOps = 0
  /\ secondClose = "none"
  /\ clientEvents = [NoClientEvents EXCEPT !["connected"] = 1]
  /\ consumers = {}
  /\ deliveries = <<>>
  /\ publishes = <<>>
  /\ setupCalls = <<>>

\* JSON.stringify(message)
JSONStringify(msg) ==
  CASE msg = "{toto: 'test'}" -> "{\"toto\":\"test\"}"
    [] msg = "'test'" -> "\"test\""
    [] msg = "1" -> "1"

\* String(message): the text of a value that is not encoded
StringOf(msg) ==
  CASE msg = "{toto: 'test'}" -> "[object Object]"
    [] msg = "'test'" -> "test"
    [] msg = "1" -> "1"

\* JSON.parse(text): the value, or "SyntaxError" when text is not JSON
JSONParse(text) ==
  CASE text = "{\"toto\":\"test\"}" -> "{toto: 'test'}"
    [] text = "\"test\"" -> "'test'"
    [] text = "1" -> "1"
    [] OTHER -> "SyntaxError"

\* Channel.publish(exchange, routingKey, content, options) of the transport:
\* on an open channel it returns whether the write buffer accepted the
\* message, on a closed channel it throws
ChannelPublish(ch, accepted) ==
  IF ~Live(ch) THEN "throws"
  ELSE IF accepted THEN "true" ELSE "false"

\* a publish that hands the message over without encoding it
PublishedUnencoded(ch, ex, key, msg, opts, accepted) ==
  IF ch = 0
  THEN [current |-> ch, args |-> <<ex, key, msg, opts>>, sent |-> <<>>,
        returned |-> "TypeError"]
  ELSE LET result == ChannelPublish(ch, accepted)
       IN [current |-> ch, args |-> <<ex, key, msg, opts>>,
           sent |-> <<[chan |-> ch, exchange |-> ex, key |-> key,
                       content |-> StringOf(msg), opts |-> opts,
                       result |-> result]>>,
           returned |-> result]

\* client.js:125-127  publish(exchange, rootingKey, message, opts) with ch the
\* client's channel field: the transport calls it makes and what it returns
\* (a null channel makes the property access throw a TypeError)
Published(ch, ex, key, msg, opts, accepted) ==
  IF ch = 0
  THEN [current |-> ch, args |-> <<ex, key, msg, opts>>, sent |-> <<>>,
        returned |-> "TypeError"]
  ELSE LET result == ChannelPublish(ch, accepted)
       IN [current |-> ch, args |-> <<ex, key, msg, opts>>,
           sent |-> <<[chan |-> ch, exchange |-> ex, key |-> key,
                       content |-> JSONStringify(msg), opts |-> opts,
                       result |-> result]>>,
           returned |-> result]

\* client.js:125-127  the caller calls publish; the call returns in the same
\* turn
Publish(ex, key, msg, opts, accepted) ==
  /\ Len(publishes) < MaxPublishes
  /\ createPc = "returned"
  /\ publishes' =
       Append(publishes, Published(channel, ex, key, msg, opts, accepted))
  /\ UNCHANGED <<connection, channel, conns, createPc, dead, observers,
                 closeObservers, timers, reconnects, errorEvents,
                 spuriousEvents, closePc, closeOps, secondClose,
                 clientEvents, consumers, deliveries, setupCalls>>

\* client.js:21-41  createClient(url, options) has built busClient and waits
\* for amqplib.connect in its first _connect
CreateInit ==
  /\ connection = 0
  /\ channel = 0
  /\ conns = 0
  /\ createPc = "connect"
  /\ dead = {}
  /\ observers = <<>>
  /\ closeObservers = <<>>
  /\ timers = <<>>
  /\ reconnects = <<>>
  /\ errorEvents = 0
  /\ spuriousEvents = 0
  /\ closePc = "idle"
  /\ closeOps = 0
  /\ secondClose = "none"
  /\ clientEvents = NoClientEvents
  /\ consumers = {}
  /\ deliveries = <<>>
  /\ publishes = <<>>
  /\ setupCalls = <<>>

\* client.js:130-131  the first amqplib.connect resolved
CreateConnectOk ==
  /\ createPc = "connect"
  /\ createPc' = "createChannel"
  /\ conns' = conns + 1
  /\ observers' = Append(observers, 0)
  /\ closeObservers' = Append(closeObservers, 0)
  /\ connection' = conns + 1
  /\ UNCHANGED <<channel, dead, timers, reconnects, errorEvents,
                 spuriousEvents, closePc, closeOps, secondClose,
                 clientEvents, consumers, deliveries, publishes, setupCalls>>

\* a createClient that retries a rejected connect
CreateConnectFailRetrying ==
  /\ createPc = "connect"
  /\ createPc' = "failed"
  /\ timers' = Append(timers, NewTimer(ReconnectTimeout))
  /\ UNCHANGED <<connection, channel, conns, dead, observers, closeObservers,
                 reconnects, errorEvents, spuriousEvents, closePc, closeOps,
                 secondClose, clientEvents, consumers, deliveries, publishes,
                 setupCalls>>

\* client.js:130,41  the first amqplib.connect rejected: createClient fails
\* with that error
CreateConnectFail ==
  /\ createPc = "connect"
  /\ createPc' = "failed"
  /\ UNCHANGED <<connection, channel, conns, dead, observers, closeObservers,
                 timers, reconnects, errorEvents, spuriousEvents, closePc,
                 closeOps, secondClose, clientEvents, consumers, deliveries,
                 publishes, setupCalls>>

\* client.js:131-135,42-43  the first createChannel resolved: the channel
\* field is set, the error observer is registered, 'connected' is emitted,
\* _onDisconnection(busClient) is ignored (busClient's constructor is
\* EventEmitter) and busClient is returned
CreateChannelOk ==
  /\ createPc = "createChannel"
  /\ Live(connection)
  /\ createPc' = "returned"
  /\ channel' = connection
  /\ observers' = [observers EXCEPT ![connection] = @ + 1]
  /\ closeObservers' = RegisterCloseObserver(closeObservers, connection)
  /\ IF IsEventEmitter(BusClientValue)
     THEN /\ clientEvents' = Bump(clientEvents, "connected")
          /\ UNCHANGED timers
     ELSE /\ clientEvents' =
               Bump(Bump(clientEvents, "connected"), "connection_error")
          /\ timers' = Append(timers, NewTimer(ReconnectTimeout))
  /\ UNCHANGED <<connection, conns, dead, reconnects, errorEvents,
                 spuriousEvents, closePc, closeOps, secondClose, consumers,
                 deliveries, publishes, setupCalls>>

\* client.js:131,41  the first createChannel rejected: createClient fails
\* with that error
CreateChannelFail ==
  /\ createPc = "createChannel"
  /\ createPc' = "failed"
  /\ UNCHANGED <<connection, channel, conns, dead, observers, closeObservers,
                 timers, reconnects, errorEvents, spuriousEvents, closePc,
                 closeOps, secondClose, clientEvents, consumers, deliveries,
                 publishes, setupCalls>>

\* client.js:77-98  consume(queue, handler): subscribes on the current channel
Consume(q) ==
  /\ Live(channel)
  /\ <<channel, q>> \notin consumers
  /\ consumers' = consumers \cup {<<channel, q>>}
  /\ UNCHANGED <<connection, channel, conns, createPc, dead, observers,
                 closeObservers, timers, reconnects, errorEvents,
                 spuriousEvents, closePc, closeOps, secondClose,
                 clientEvents, deliveries, publishes, setupCalls>>

\* a setupQueue that binds the queue without asserting it
SetupQueueNextSkippingQueue(op) ==
  CASE op = "assertExchange" -> "bindQueue"
    [] op = "assertQueue" -> "bindQueue"
    [] op = "bindQueue" -> "done"

\* the transport call that setupQueue makes after the one it awaited
SetupQueueNext(op) ==
  CASE op = "assertExchange" -> "assertQueue"
    [] op = "assertQueue" -> "bindQueue"
    [] op = "bindQueue" -> "done"

\* client.js:112-113  listen: the transport call made after the one awaited;
\* consume follows the return of setupQueue
ListenNext(op) ==
  CASE op = "consume" -> "done"
    [] SetupQueueNext(op) = "done" -> "consume"
    [] OTHER -> SetupQueueNext(op)

\* the call that record rec makes after the one it awaited
NextOp(rec) ==
  IF rec.listen THEN ListenNext(rec.pc) ELSE SetupQueueNext(rec.pc)

\* the error a failed transport call op is rejected with, and the TypeError
\* thrown by a property access on a null channel
TransportError(op) == <<"rejected", op>>
NullChannelError(op) == <<"TypeError", op>>

\* client.js:58-63, 111-114  no statement of setupQueue or listen catches:
\* the error thrown into the generator at its yield is the one its caller's
\* promise is rejected with
Propagate(err) == err

\* the generator of record rec fails with err
Throw(rec, err) ==
  [rec EXCEPT !.pc = "failed", !.thrown = err, !.result = Propagate(err)]

\* client.js:60-62, 78  busClient.channel.<op>(...): the call is made on the
\* client's channel field ch as it is when the statement runs; a null field
\* makes the property access throw a TypeError and the generator fails
SetupQueueIssue(rec, op, ch) ==
  IF op = "done" THEN [rec EXCEPT !.pc = "done", !.result = <<"ok">>]
  ELSE IF ch = 0 THEN Throw(rec, NullChannelError(op))
  ELSE [rec EXCEPT !.pc = op, !.chans = Append(@, ch),
                   !.ops = Append(@, op)]

\* a call of setupQueue or listen that has not run yet
NewSetup(ex, q, key, viaListen) ==
  [pc |-> "start", exchange |-> ex, queue |-> q, key |-> key,
   listen |-> viaListen, chans |-> <<>>, ops |-> <<>>, resolved |-> 0,
   thrown |-> <<>>, result |-> <<"pending">>]

\* client.js:58-60  the caller calls setupQueue(exchange, queue, rootingKey):
\* it runs up to its first transport call, assertExchange
SetupQueueCall(ex, q, key) ==
  /\ Len(setupCalls) < MaxSetups
  /\ createPc = "returned"
  /\ setupCalls' = Append(setupCalls,
       SetupQueueIssue(NewSetup(ex, q, key, FALSE), "assertExchange",
                       channel))
  /\ UNCHANGED <<connection, channel, conns, createPc, dead, observers,
                 closeObservers, timers, reconnects, errorEvents,
                 spuriousEvents, closePc, closeOps, secondClose,
                 clientEvents, consumers, deliveries, publishes>>

\* client.js:111-112  the caller calls listen(exchange, queue, rootingKey,
\* handler): it calls setupQueue, which runs up to its first transport call
ClientListenCall(ex, q, key) ==
  /\ Len(setupCalls) < MaxSetups
  /\ createPc = "returned"
  /\ setupCalls' = Append(setupCalls,
       SetupQueueIssue(NewSetup(ex, q, key, TRUE), "assertExchange",
                       channel))
  /\ UNCHANGED <<connection, channel, conns, createPc, dead, observers,
                 closeObservers, timers, reconnects, errorEvents,
                 spuriousEvents, closePc, closeOps, secondClose,
                 clientEvents, consumers, deliveries, publishes>>

\* client.js:60-62, 112-113  the transport call awaited by call i resolved
\* (its channel is open): the generator makes its next call, or returns; a
\* consume that resolved has registered the consumer on its channel
SetupQueueStep(i) ==
  /\ i \in DOMAIN setupCalls
  /\ setupCalls[i].pc \in
       {"assertExchange", "assertQueue", "bindQueue", "consume"}
  /\ Live(setupCalls[i].chans[Len(setupCalls[i].chans)])
  /\ setupCalls' = [setupCalls EXCEPT ![i] =
       SetupQueueIssue([@ EXCEPT !.resolved = @ + 1], NextOp(@), channel)]
  /\ consumers' =
       IF setupCalls[i].pc = "consume"
       THEN consumers \cup
              {<<setupCalls[i].chans[Len(setupCalls[i].chans)],
                 setupCalls[i].queue>>}
       ELSE consumers
  /\ UNCHANGED <<connection, channel, conns, createPc, dead, observers,
                 closeObservers, timers, reconnects, errorEvents,
                 spuriousEvents, closePc, closeOps, secondClose,
                 clientEvents, deliveries, publishes>>

\* client.js:60-62, 112-113  the transport call awaited by call i was
\* rejected: the generator fails with the error of that call
SetupQueueFail(i) ==
  /\ i \in DOMAIN setupCalls
  /\ setupCalls[i].pc \in
       {"assertExchange", "assertQueue", "bindQueue", "consume"}
  /\ setupCalls' = [setupCalls EXCEPT ![i] =
       Throw(@, TransportError(@.pc))]
  /\ UNCHANGED <<connection, channel, conns, createPc, dead, observers,
                 closeObservers, timers, reconnects, errorEvents,
                 spuriousEvents, closePc, closeOps, secondClose,
                 clientEvents, consumers, deliveries, publishes>>

\* the transport hands a message of a consumed queue to _consumeMessage
Deliver(q, valid, beh) ==
  /\ Len(deliveries) < MaxDeliveries
  /\ \E c \in 1..conns :
       /\ Live(c)
       /\ <<c, q>> \in consumers
       /\ LET new == NewDelivery(q, c, valid, beh)
              d == ConsumeMessageStart(new, channel)
          IN /\ deliveries' = Append(deliveries, d)
             /\ clientEvents' = [clientEvents EXCEPT
                  !["consume_error"] = @ + ConsumeErrors(new, d)]
  /\ UNCHANGED <<connection, channel, conns, createPc, dead, observers,
                 closeObservers, timers, reconnects, errorEvents,
                 spuriousEvents, closePc, closeOps, secondClose, consumers,
                 publishes, setupCalls>>

\* a consumer that resumes the deliveries of a queue in their order of
\* arrival: a completed handler waits for the handlers of earlier deliveries
CompleteInOrder(i) ==
  /\ i \in DOMAIN deliveries
  /\ deliveries[i].st = "handling"
  /\ \A k \in 1..(i - 1) :
       deliveries[k].queue = deliveries[i].queue => deliveries[k].st = "done"
  /\ LET d == ConsumeMessageResume(deliveries[i], channel)
     IN /\ deliveries' = [deliveries EXCEPT ![i] = d]
        /\ clientEvents' = [clientEvents EXCEPT
             !["consume_error"] = @ + ConsumeErrors(deliveries[i], d)]
  /\ UNCHANGED <<connection, channel, conns, createPc, dead, observers,
                 closeObservers, timers, reconnects, errorEvents,
                 spuriousEvents, closePc, closeOps, secondClose, consumers,
                 publishes, setupCalls>>

\* client.js:91-96  the handler of delivery i completes and _consumeMessage
\* resumes; nothing bounds the time a handler takes, so a delivery whose
\* handler never completes is one for which this step never happens
Complete(i) ==
  /\ i \in DOMAIN deliveries
  /\ deliveries[i].st = "handling"
  /\ LET d == ConsumeMessageResume(deliveries[i], channel)
     IN /\ deliveries' = [deliveries EXCEPT ![i] = d]
        /\ clientEvents' = [clientEvents EXCEPT
             !["consume_error"] = @ + ConsumeErrors(deliveries[i], d)]
  /\ UNCHANGED <<connection, channel, conns, createPc, dead, observers,
                 closeObservers, timers, reconnects, errorEvents,
                 spuriousEvents, closePc, closeOps, secondClose, consumers,
                 publishes, setupCalls>>

\* client.js:35-36  close(): this.connection.close() is issued
CloseStart ==
  /\ closePc = "idle"
  /\ Live(connection)
  /\ closePc' = "closing"
  /\ closeOps' = closeOps + 1
  /\ dead' = dead \cup {connection}
  /\ UNCHANGED <<connection, channel, conns, createPc, observers,
                 closeObservers, timers, reconnects, errorEvents,
                 spuriousEvents, secondClose, clientEvents, consumers,
                 deliveries, publishes, setupCalls>>

\* a close that sets the fields to null although the transport rejected it
CloseRejectedNullingFields ==
  /\ closePc = "idle"
  /\ connection # 0
  /\ ~Live(connection)
  /\ closePc' = "closed"
  /\ closeOps' = closeOps + 1
  /\ connection' = 0
  /\ channel' = 0
  /\ UNCHANGED <<conns, createPc, dead, observers, closeObservers, timers,
                 reconnects, errorEvents, spuriousEvents, secondClose,
                 clientEvents, consumers, deliveries, publishes, setupCalls>>

\* client.js:35-36  close() on a client whose connection was lost: the
\* transport rejects this.connection.close(), the rejection propagates out of
\* close() and the two assignments are not reached
CloseRejected ==
  /\ closePc = "idle"
  /\ connection # 0
  /\ ~Live(connection)
  /\ closePc' = "rejected"
  /\ closeOps' = closeOps + 1
  /\ UNCHANGED <<connection, channel, conns, createPc, dead, observers,
                 closeObservers, timers, reconnects, errorEvents,
                 spuriousEvents, secondClose, clientEvents, consumers,
                 deliveries, publishes, setupCalls>>

\* a close that forgets the channel field
CloseDoneKeepingChannel ==
  /\ closePc = "closing"
  /\ closePc' = "closed"
  /\ connection' = 0
  /\ UNCHANGED <<channel, conns, createPc, dead, observers, closeObservers,
                 timers, reconnects, errorEvents, spuriousEvents, closeOps,
                 secondClose, clientEvents, consumers, deliveries, publishes,
                 setupCalls>>

\* client.js:37-38  close() resumed: both fields are set to null
CloseDone ==
  /\ closePc = "closing"
  /\ closePc' = "closed"
  /\ connection' = 0
  /\ channel' = 0
  /\ UNCHANGED <<conns, createPc, dead, observers, closeObservers, timers,
                 reconnects, errorEvents, spuriousEvents, closeOps,
                 secondClose, clientEvents, consumers, deliveries, publishes,
                 setupCalls>>

\* client.js:36  close() called again after a close() completed: the
\* connection field is null, this.connection.close() throws a TypeError
\* before any transport call and the call's completion rejects
CloseAgain ==
  /\ closePc = "closed"
  /\ secondClose = "none"
  /\ connection = 0
  /\ secondClose' = "rejected"
  /\ UNCHANGED <<connection, channel, conns, createPc, dead, observers,
                 closeObservers, timers, reconnects, errorEvents,
                 spuriousEvents, closePc, closeOps, clientEvents, consumers,
                 deliveries, publishes, setupCalls>>

\* a disconnection handler that reconnects at once
OnDisconnectionNoDelay(c, err) ==
  IF IsEventEmitter(err)
  THEN UNCHANGED <<clientEvents, timers>>
  ELSE /\ clientEvents' =
            [clientEvents EXCEPT !["connection_error"] = @ + observers[c]]
       /\ timers' = timers \o [n \in 1..observers[c] |-> NewTimer(0)]

\* client.js:141-148  _onDisconnection(err) called for an 'error' event of an
\* observed connection, once per registered observer
OnDisconnection(c, err) ==
  IF IsEventEmitter(err)
  THEN UNCHANGED <<clientEvents, timers>>
  ELSE /\ clientEvents' =
            [clientEvents EXCEPT !["connection_error"] = @ + observers[c]]
       /\ timers' = timers \o
            [n \in 1..observers[c] |-> NewTimer(ReconnectTimeout)]

\* the transport emits 'error' on connection c: with an Error the connection
\* is lost; the event carrying an EventEmitter accompanies it and changes
\* nothing
ErrorEvent(c, err) ==
  /\ c \in 1..conns
  /\ Live(c)
  /\ observers[c] > 0
  /\ IF err = "emitter"
     THEN /\ spuriousEvents < MaxSpurious
          /\ spuriousEvents' = spuriousEvents + 1
          /\ UNCHANGED <<errorEvents, dead>>
     ELSE /\ errorEvents < MaxErrors
          /\ errorEvents' = errorEvents + 1
          /\ dead' = dead \cup {c}
          /\ UNCHANGED spuriousEvents
  /\ OnDisconnection(c, err)
  /\ UNCHANGED <<connection, channel, conns, createPc, observers,
                 closeObservers, reconnects, closePc, closeOps, secondClose,
                 consumers, deliveries, publishes, setupCalls>>

\* the transport emits a further 'error', carrying an Error, on a connection
\* c that an earlier 'error' already reported as lost (for instance a socket
\* error following a heartbeat timeout): the observer registered at
\* client.js:134 is still there and runs again
RepeatedErrorEvent(c) ==
  /\ c \in 1..conns
  /\ c \in dead
  /\ closePc = "idle"
  /\ observers[c] > 0
  /\ errorEvents >= 1
  /\ errorEvents < MaxErrors + MaxRepeats
  /\ errorEvents' = errorEvents + 1
  /\ OnDisconnection(c, "error")
  /\ UNCHANGED <<connection, channel, conns, createPc, dead, observers,
                 closeObservers, reconnects, spuriousEvents, closePc,
                 closeOps, secondClose, consumers, deliveries, publishes,
                 setupCalls>>

\* one clock tick passes while a timer is pending
Tick ==
  /\ \E t \in DOMAIN timers : ~Expired(timers[t])
  /\ timers' = [t \in DOMAIN timers |->
                  IF Expired(timers[t]) THEN timers[t]
                  ELSE [timers[t] EXCEPT !.waited = @ + 1]]
  /\ UNCHANGED <<connection, channel, conns, createPc, dead, observers,
                 closeObservers, reconnects, errorEvents, spuriousEvents,
                 closePc, closeOps, secondClose, clientEvents, consumers,
                 deliveries, publishes, setupCalls>>

\* client.js:26,147  a reconnect timer fires: _connect starts and suspends in
\* amqplib.connect
TimerFire ==
  /\ timers # <<>>
  /\ Expired(Head(timers))
  /\ timers' = Tail(timers)
  /\ reconnects' = Append(reconnects,
       [pc |-> "connect", conn |-> 0, waited |-> Head(timers).waited])
  /\ UNCHANGED <<connection, channel, conns, createPc, dead, observers,
                 closeObservers, errorEvents, spuriousEvents, closePc,
                 closeOps, secondClose, clientEvents, consumers, deliveries,
                 publishes, setupCalls>>

\* client.js:130-131  amqplib.connect resolved: the connection field is
\* replaced and createChannel is issued on it
ConnectOk(r) ==
  /\ r \in DOMAIN reconnects
  /\ reconnects[r].pc = "connect"
  /\ conns' = conns + 1
  /\ observers' = Append(observers, 0)
  /\ closeObservers' = Append(closeObservers, 0)
  /\ connection' = conns + 1
  /\ reconnects' = [reconnects EXCEPT ![r].pc = "createChannel",
                                      ![r].conn = conns + 1]
  /\ UNCHANGED <<channel, createPc, dead, timers, errorEvents,
                 spuriousEvents, closePc, closeOps, secondClose,
                 clientEvents, consumers, deliveries, publishes, setupCalls>>

\* a _connect that schedules a new attempt when amqplib.connect is rejected
ConnectFailRescheduling(r) ==
  /\ r \in DOMAIN reconnects
  /\ reconnects[r].pc = "connect"
  /\ reconnects' = [reconnects EXCEPT ![r].pc = "failed"]
  /\ timers' = Append(timers, NewTimer(ReconnectTimeout))
  /\ UNCHANGED <<connection, channel, conns, createPc, dead, observers,
                 closeObservers, errorEvents, spuriousEvents,
                 closePc, closeOps, secondClose, clientEvents, consumers,
                 deliveries, publishes, setupCalls>>

\* client.js:26,130  amqplib.connect rejected: _connect ends there and the
\* promise of co.wrap(_connect), which setTimeout discards, is rejected
ConnectFail(r) ==
  /\ r \in DOMAIN reconnects
  /\ reconnects[r].pc = "connect"
  /\ reconnects' = [reconnects EXCEPT ![r].pc = "failed"]
  /\ UNCHANGED <<connection, channel, conns, createPc, dead, observers,
                 closeObservers, timers, errorEvents, spuriousEvents,
                 closePc, closeOps, secondClose, clientEvents, consumers,
                 deliveries, publishes, setupCalls>>

\* a reconnect that leaves the client's channel field as it was
ChannelOkKeepingChannel(r) ==
  /\ r \in DOMAIN reconnects
  /\ reconnects[r].pc = "createChannel"
  /\ Live(reconnects[r].conn)
  /\ IF connection = 0
     THEN /\ reconnects' = [reconnects EXCEPT ![r].pc = "failed"]
          /\ UNCHANGED <<observers, closeObservers, clientEvents>>
     ELSE /\ reconnects' = [reconnects EXCEPT ![r].pc = "done"]
          /\ observers' = [observers EXCEPT ![connection] = @ + 1]
          /\ closeObservers' =
               RegisterCloseObserver(closeObservers, connection)
          /\ clientEvents' = Bump(clientEvents, "connected")
  /\ UNCHANGED <<connection, channel, conns, createPc, dead, timers,
                 errorEvents, spuriousEvents, closePc, closeOps, secondClose,
                 consumers, deliveries, publishes, setupCalls>>

\* a reconnect that consumes again, on the new channel, the queues that
\* were consumed on the channel it replaces
ChannelOkResubscribing(r) ==
  /\ r \in DOMAIN reconnects
  /\ reconnects[r].pc = "createChannel"
  /\ Live(reconnects[r].conn)
  /\ channel' = reconnects[r].conn
  /\ consumers' = consumers \cup
       {<<reconnects[r].conn, p[2]>> : p \in {c \in consumers : c[1] = channel}}
  /\ IF connection = 0
     THEN /\ reconnects' = [reconnects EXCEPT ![r].pc = "failed"]
          /\ UNCHANGED <<observers, closeObservers, clientEvents>>
     ELSE /\ reconnects' = [reconnects EXCEPT ![r].pc = "done"]
          /\ observers' = [observers EXCEPT ![connection] = @ + 1]
          /\ closeObservers' =
               RegisterCloseObserver(closeObservers, connection)
          /\ clientEvents' = Bump(clientEvents, "connected")
  /\ UNCHANGED <<connection, conns, createPc, dead, timers, errorEvents,
                 spuriousEvents, closePc, closeOps, secondClose, deliveries,
                 publishes, setupCalls>>

\* client.js:131-135  createChannel resolved: the channel field is replaced,
\* the error observer is registered on the current connection field (a null
\* field throws) and 'connected' is emitted
ChannelOk(r) ==
  /\ r \in DOMAIN reconnects
  /\ reconnects[r].pc = "createChannel"
  /\ Live(reconnects[r].conn)
  /\ channel' = reconnects[r].conn
  /\ IF connection = 0
     THEN /\ reconnects' = [reconnects EXCEPT ![r].pc = "failed"]
          /\ UNCHANGED <<observers, closeObservers, clientEvents>>
     ELSE /\ reconnects' = [reconnects EXCEPT ![r].pc = "done"]
          /\ observers' = [observers EXCEPT ![connection] = @ + 1]
          /\ closeObservers' =
               RegisterCloseObserver(closeObservers, connection)
          /\ clientEvents' = Bump(clientEvents, "connected")
  /\ UNCHANGED <<connection, conns, createPc, dead, timers, errorEvents,
                 spuriousEvents, closePc, closeOps, secondClose, consumers,
                 deliveries, publishes, setupCalls>>

\* client.js:131  createChannel rejected: the coroutine ends
ChannelFail(r) ==
  /\ r \in DOMAIN reconnects
  /\ reconnects[r].pc = "createChannel"
  /\ reconnects' = [reconnects EXCEPT ![r].pc = "failed"]
  /\ UNCHANGED <<connection, channel, conns, createPc, dead, observers,
                 closeObservers, timers, errorEvents, spuriousEvents,
                 closePc, closeOps, secondClose, clientEvents, consumers,
                 deliveries, publishes, setupCalls>>

\* ================================================================ listener
NoListenerEvents ==
  [n \in {"connect", "unhandle", "handle_error"} |-> 0]

\* undefined: the value of a property an object does not have
NoHandler == "none"

\* the client given as options.client, when there is one
InjectedClient == 1

EmptyMap == [n \in {} |-> 0]

\* Object.keys(obj): the own properties in insertion order
ObjectKeys(obj) == [n \in DOMAIN obj |-> obj[n].key]

HasKey(obj, k) == \E n \in DOMAIN obj : obj[n].key = k

\* a lookup that ignores the key
GetIgnoringKey(obj, k) ==
  IF obj # <<>> THEN obj[1].handler ELSE NoHandler

\* obj[k]
Get(obj, k) ==
  IF HasKey(obj, k)
  THEN obj[CHOOSE n \in DOMAIN obj : obj[n].key = k].handler
  ELSE NoHandler

\* an assignment that keeps the handler registered first
PutKeepingFirst(obj, k, h) ==
  IF HasKey(obj, k) THEN obj ELSE Append(obj, [key |-> k, handler |-> h])

\* listener.js:42  handlers[queue][key] = handler
Put(obj, k, h) ==
  IF HasKey(obj, k)
  THEN [n \in DOMAIN obj |->
          IF obj[n].key = k THEN [key |-> k, handler |-> h] ELSE obj[n]]
  ELSE Append(obj, [key |-> k, handler |-> h])

\* listener.js:38  !handlers[queue]
IsNewQueue(hs, q) == q \notin DOMAIN hs

\* history: the handler registered last for <<q, k>>, NoHandler when none was
Registered(q, k) ==
  IF <<q, k>> \in DOMAIN lastGiven THEN lastGiven[<<q, k>>] ELSE NoHandler

\* listener.js:37-43  addHandler(queue, key, handler)
AddHandler(q, k, h) ==
  /\ adds' = adds + 1
  /\ IF IsNewQueue(handlers, q)
     THEN /\ queues' = Append(queues, q)
          /\ handlers' = handlers @@ (q :> Put(<<>>, k, h))
     ELSE /\ queues' = queues
          /\ handlers' = [handlers EXCEPT ![q] = Put(@, k, h)]
  /\ firstSeen' = IF q \in Range(firstSeen) THEN firstSeen
                  ELSE Append(firstSeen, q)
  /\ lastGiven' = [p \in DOMAIN lastGiven \cup {<<q, k>>} |->
                     IF p = <<q, k>> THEN h ELSE lastGiven[p]]
  /\ replaced' = IF Registered(q, k) \notin {NoHandler, h}
                 THEN replaced \cup {<<q, k>>} ELSE replaced
  /\ UNCHANGED <<lclient, injected, clientsCreated, relays, listens, calls,
                 listenerEvents, lastDispatch, dispatches>>

\* a listen without its guard
ListenGuardMissing(cl) == FALSE

\* listener.js:53  if (instance.client) return
ListenGuard(cl) == cl # 0

NewListen(a) ==
  [pc |-> "start", exchange |-> a[1], opts |-> a[2], qi |-> 0, keys |-> <<>>,
   awaiting |-> "none",
   afterDone |-> \E j \in DOMAIN listens : listens[j].pc = "done",
   addsAtStart |-> adds, obtained |-> 0, connects |-> 0]

\* listener.js:61  yield instance.client.setupQueue(exchange, queue, key, opts)
\* for the first of the keys ks that are left for queue q; chan is the
\* channel field of the client when the call is made
IssueSetupQueue(rec, i, cl, q, ks) ==
  <<[rec EXCEPT !.pc = "call", !.awaiting = "setupQueue", !.keys = Tail(ks)],
    <<[by |-> i, op |-> "setupQueue", client |-> cl, exchange |-> rec.exchange,
       queue |-> q, key |-> Head(ks), opts |-> rec.opts, st |-> "pending",
       chan |-> channel]>>>>

\* listener.js:63  yield instance.client.consume(queue, createConsumeHandler(queue))
IssueConsume(rec, i, cl, q) ==
  <<[rec EXCEPT !.pc = "call", !.awaiting = "consume", !.keys = <<>>],
    <<[by |-> i, op |-> "consume", client |-> cl, exchange |-> "none",
       queue |-> q, key |-> "none", opts |-> "none", st |-> "pending",
       chan |-> channel]>>>>

\* listener.js:59-60  the outer loop reaches the n-th element of queues
EnterQueue(rec, i, cl, n) ==
  IF n > Len(queues)
  THEN <<[rec EXCEPT !.pc = "done", !.awaiting = "none", !.qi = n], <<>>>>
  ELSE LET q == queues[n]
           ks == ObjectKeys(handlers[q])
           r == [rec EXCEPT !.qi = n]
       IN IF ks = <<>> THEN IssueConsume(r, i, cl, q)
          ELSE IssueSetupQueue(r, i, cl, q, ks)

\* loops that consume once per key instead of once per queue
ResumeConsumingPerKey(rec, i, cl) ==
  IF rec.awaiting = "setupQueue"
  THEN LET c == IssueConsume(rec, i, cl, queues[rec.qi])
       IN <<[c[1] EXCEPT !.keys = rec.keys], c[2]>>
  ELSE IF rec.keys # <<>>
       THEN IssueSetupQueue(rec, i, cl, queues[rec.qi], rec.keys)
       ELSE EnterQueue(rec, i, cl, rec.qi + 1)

\* listener.js:59-64  the loops resumed after the awaited call returned
Resume(rec, i, cl) ==
  IF rec.awaiting = "setupQueue"
  THEN IF rec.keys # <<>>
       THEN IssueSetupQueue(rec, i, cl, queues[rec.qi], rec.keys)
       ELSE IssueConsume(rec, i, cl, queues[rec.qi])
  ELSE EnterQueue(rec, i, cl, rec.qi + 1)

\* listener.js:54-64  the client cl has been obtained by call i: it becomes
\* instance.client, 'connect' is emitted, the consume_error relay is
\* registered on it and the loops run up to the first call
Activate(i, rec, cl, ls, rl, cs) ==
  LET r == [rec EXCEPT !.obtained = @ + 1, !.connects = @ + 1]
      res == EnterQueue(r, i, cl, 1)
  IN /\ lclient' = cl
     /\ listenerEvents' = Bump(listenerEvents, "connect")
     /\ relays' = [rl EXCEPT ![cl] = @ + 1]
     /\ listens' = [ls EXCEPT ![i] = res[1]]
     /\ calls' = [cs EXCEPT ![i] = @ \o res[2]]

\* listener.js:52-54  listen(exchange, opts) is called
ListenCall(a) ==
  /\ Len(listens) < MaxListens
  /\ LET i == Len(listens) + 1
         rec == NewListen(a)
     IN IF ListenGuard(lclient)
        THEN /\ listens' = Append(listens, [rec EXCEPT !.pc = "done"])
             /\ calls' = Append(calls, <<>>)
             /\ UNCHANGED <<lclient, listenerEvents, relays>>
        ELSE IF injected
        THEN Activate(i, rec, InjectedClient, Append(listens, rec), relays,
                      Append(calls, <<>>))
        ELSE /\ listens' = Append(listens, [rec EXCEPT !.pc = "createClient"])
             /\ calls' = Append(calls, <<>>)
             /\ UNCHANGED <<lclient, listenerEvents, relays>>
  /\ UNCHANGED <<queues, handlers, injected, clientsCreated, lastDispatch,
                 dispatches, firstSeen, lastGiven, replaced, adds>>

\* listener.js:54  yield createClient(url) resolved with a new client
ClientCreated(i) ==
  /\ i \in DOMAIN listens
  /\ listens[i].pc = "createClient"
  /\ clientsCreated' = clientsCreated + 1
  /\ Activate(i, listens[i], clientsCreated + 1, listens, Append(relays, 0),
              calls)
  /\ UNCHANGED <<queues, handlers, injected, lastDispatch, dispatches,
                 firstSeen, lastGiven, replaced, adds>>

\* listener.js:54  yield createClient(url) rejected: listen fails
ClientFailed(i) ==
  /\ i \in DOMAIN listens
  /\ listens[i].pc = "createClient"
  /\ listens' = [listens EXCEPT ![i].pc = "failed"]
  /\ UNCHANGED <<queues, handlers, lclient, injected, clientsCreated, relays,
                 calls, listenerEvents, lastDispatch, dispatches, firstSeen,
                 lastGiven, replaced, adds>>

\* the calls of listen call i with its pending call settled as st
Settle(i, st) ==
  [n \in DOMAIN calls[i] |->
     IF calls[i][n].st = "pending"
     THEN [calls[i][n] EXCEPT !.st = st] ELSE calls[i][n]]

\* listener.js:61,63  the awaited setupQueue / consume call resolved
CallReturns(i) ==
  /\ i \in DOMAIN listens
  /\ listens[i].pc = "call"
  /\ LET res == Resume(listens[i], i, lclient)
     IN /\ listens' = [listens EXCEPT ![i] = res[1]]
        /\ calls' = [calls EXCEPT ![i] = Settle(i, "ok") \o res[2]]
  /\ UNCHANGED <<queues, handlers, lclient, injected, clientsCreated, relays,
                 listenerEvents, lastDispatch, dispatches, firstSeen,
                 lastGiven, replaced, adds>>

\* listener.js:61,63  the awaited setupQueue / consume call rejected
CallFails(i) ==
  /\ i \in DOMAIN listens
  /\ listens[i].pc = "call"
  /\ listens' = [listens EXCEPT ![i].pc = "failed"]
  /\ calls' = [calls EXCEPT ![i] = Settle(i, "failed")]
  /\ UNCHANGED <<queues, handlers, lclient, injected, clientsCreated, relays,
                 listenerEvents, lastDispatch, dispatches, firstSeen,
                 lastGiven, replaced, adds>>

\* listener.js:74  co.wrap(handler)(message, fields): the completion of the
\* handler's invocation ("ok": it resolves, "throw": it throws or rejects)
CoWrap(res) ==
  IF res = "ok" THEN "resolved" ELSE "rejected"

\* a dispatch that treats a missing handler as a handler failure
ConsumeHandlerFailingUnrouted(q, msg, rk, res) ==
  LET handler == Get(handlers[q], rk)
  IN IF handler = NoHandler
     THEN [invoked |-> <<>>, unhandle |-> << <<q, msg, rk>> >>,
           completion |-> "rejected"]
     ELSE [invoked |-> << <<handler, msg, rk>> >>, unhandle |-> <<>>,
           completion |-> CoWrap(res)]

\* listener.js:68-75  the function returned by createConsumeHandler(queue),
\* called with (message, fields); res is what the looked-up handler does
ConsumeHandler(q, msg, rk, res) ==
  LET handler == Get(handlers[q], rk)
  IN IF handler = NoHandler
     THEN [invoked |-> <<>>, unhandle |-> << <<q, msg, rk>> >>,
           completion |-> "resolved"]
     ELSE [invoked |-> << <<handler, msg, rk>> >>, unhandle |-> <<>>,
           completion |-> CoWrap(res)]

\* a relay that re-emits the error without its metadata
RelayDroppingMetadata(n, errs) ==
  [k \in 1..(n * Len(errs)) |->
     [errs[((k - 1) % Len(errs)) + 1] EXCEPT !.metadata = <<"none", 0>>]]

\* listener.js:57  the handle_error events emitted for the consume_error
\* events errs of a client on which n relay callbacks are registered: each
\* callback emits handle_error with the (err, metadata) it was called with
Relay(n, errs) ==
  [k \in 1..(n * Len(errs)) |-> errs[((k - 1) % Len(errs)) + 1]]

\* client.js:86,93  the consume_error events emitted between two states of
\* a delivery, with their (err, metadata)
ConsumeErrorEvents(old, new, msg) ==
  [n \in 1..ConsumeErrors(old, new) |->
     [err |-> new.events[Len(old.events) + n],
      metadata |-> <<new.queue, msg>>]]

NotInvoked ==
  [invoked |-> <<>>, unhandle |-> <<>>, completion |-> "none"]

NoDispatch ==
  [msg |-> 0, queue |-> "none", rk |-> "none", valid |-> FALSE,
   res |-> "none", registered |-> NoHandler, out |-> NotInvoked,
   delivery |-> NewDelivery("none", 0, FALSE, "ok"), handleErrors |-> 0,
   client |-> 0, consumeErrors |-> <<>>, relayed |-> <<>>]

\* a message with routing key rk arrives on queue q for a consumer that a
\* consume call of listen registered on client cl (the transport delivers on
\* a channel that is still open): the client's
\* _consumeMessage (client.js:78-97) decodes it, calls the listener's
\* dispatch function as its handler and acks or nacks; the client's
\* consume_error events are relayed as handle_error (listener.js:57)
Dispatch(q, rk, valid, res) ==
  /\ dispatches < MaxDispatches
  /\ \E i \in DOMAIN calls, n \in 1..(2 * MaxAdds) :
       /\ n \in DOMAIN calls[i]
       /\ calls[i][n].op = "consume"
       /\ calls[i][n].queue = q
       /\ calls[i][n].st = "ok"
       /\ Live(calls[i][n].chan)
       /\ LET cl == calls[i][n].client
              msg == dispatches + 1
              out == IF Decodes(valid) THEN ConsumeHandler(q, msg, rk, res)
                     ELSE NotInvoked
              new == NewDelivery(q, cl, valid,
                       IF out.completion = "rejected" THEN "throw" ELSE "ok")
              started == ConsumeMessageStart(new, cl)
              d == IF started.st = "handling"
                   THEN ConsumeMessageResume(started, cl) ELSE started
              ces == ConsumeErrorEvents(new, d, msg)
              relayed == Relay(relays[cl], ces)
              errs == Len(relayed)
          IN /\ lastDispatch' =
                  [msg |-> msg, queue |-> q, rk |-> rk, valid |-> valid,
                   res |-> res, registered |-> Registered(q, rk), out |-> out,
                   delivery |-> d, handleErrors |-> errs, client |-> cl,
                   consumeErrors |-> ces, relayed |-> relayed]
             /\ listenerEvents' = [listenerEvents EXCEPT
                  !["unhandle"] = @ + Len(out.unhandle),
                  !["handle_error"] = @ + errs]
  /\ dispatches' = dispatches + 1
  /\ UNCHANGED <<queues, handlers, lclient, injected, clientsCreated, relays,
                 listens, calls, firstSeen, lastGiven, replaced, adds>>

ListenerInit ==
  /\ queues = <<>>
  /\ handlers = EmptyMap
  /\ lclient = 0
  /\ injected \in BOOLEAN
  /\ clientsCreated = 0
  /\ relays = IF injected THEN <<0>> ELSE <<>>
  /\ listens = <<>>
  /\ calls = <<>>
  /\ listenerEvents = NoListenerEvents
  /\ lastDispatch = NoDispatch
  /\ dispatches = 0
  /\ firstSeen = <<>>
  /\ lastGiven = EmptyMap
  /\ replaced = {}
  /\ adds = 0

\* ================================================================ variants
\* The listener exists in two variants. unnamed/part_002 wraps a generator
\* handler with co.wrap once, in addHandler, and calls the stored function at
\* dispatch; lib/listener.js stores the handler as given and calls
\* co.wrap(handler) at each dispatch. Both are run here on the same inputs.

\* the accepted shapes of a handler: a generator function, and a function
\* returning a promise (an async function is one)
HandlerShapes == {"generator", "promise"}
UserHandlers == [fn : {"user"}, shape : HandlerShapes, id : HandlerIds]
Undefined == [fn |-> "undefined", shape |-> "none", id |-> "none"]

\* what one invocation of the handler's body does
Settled(res) == IF res = "ok" THEN "resolved" ELSE "rejected"

\* part_002:13-15  isGeneratorFunction(obj)
IsGeneratorFunction(f) == f.fn = "user" /\ f.shape = "generator"

\* co.wrap(fn): a function that calls fn and runs its result under co
CoWrapFn(f) == [f EXCEPT !.fn = "coWrap"]

\* a co that accepts generators only and fails on any other value
CoGeneratorsOnly(r) ==
  IF r.value.type = "generator"
  THEN [ran |-> Append(r.ran, r.value.body),
        value |-> [type |-> "promise", body |-> <<>>,
                   state |-> r.value.state]]
  ELSE [ran |-> r.ran,
        value |-> [type |-> "promise", body |-> <<>>, state |-> "rejected"]]

\* co(value), as co.wrap applies it to the value fn returned: a generator
\* object is run to its end, and the promise returned settles as the body
\* does; any other value is passed to resolve(), so that a promise is adopted
\* and the returned promise settles as it does
Co(r) ==
  IF r.value.type = "generator"
  THEN [ran |-> Append(r.ran, r.value.body),
        value |-> [type |-> "promise", body |-> <<>>,
                   state |-> r.value.state]]
  ELSE [ran |-> r.ran,
        value |-> [type |-> "promise", body |-> <<>>,
                   state |-> r.value.state]]

\* f(message, fields): the bodies run so far, with their arguments, and the
\* value returned. Calling a generator function runs nothing: it returns a
\* generator object whose body runs when it is iterated. Calling a
\* promise-returning function runs its body and returns its promise.
Call(f, msg, rk, res) ==
  LET generator == [ran |-> <<>>,
                    value |-> [type |-> "generator", body |-> <<f.id, msg, rk>>,
                               state |-> Settled(res)]]
      promise == [ran |-> << <<f.id, msg, rk>> >>,
                  value |-> [type |-> "promise", body |-> <<>>,
                             state |-> Settled(res)]]
      plain == IF f.shape = "generator" THEN generator ELSE promise
  IN IF f.fn = "coWrap" THEN Co(plain) ELSE plain

\* client.js:91  yield handler(content, message.fields) under co: the
\* completion signal the consumer gets from the value the dispatch returned.
\* A promise is awaited; a generator object is run by co
Yield(r) ==
  IF r.value.type = "generator"
  THEN [ran |-> Append(r.ran, r.value.body), completion |-> r.value.state]
  ELSE [ran |-> r.ran, completion |-> r.value.state]

\* listener.js:70-71, part_002:87-88  handler = () => Promise.resolve()
DefaultHandler == [fn |-> "user", shape |-> "promise", id |-> "default"]

\* part_002:55-59  the value addHandler stores for handler h
StoredAtRegistration(h) ==
  IF IsGeneratorFunction(h) THEN CoWrapFn(h) ELSE h

\* listener.js:42  handlers[queue][key] = handler
StoredAtDispatch(h) == h

\* part_002:84-93  the function returned by createConsumeHandler(queue)
ConsumeHandlerAtRegistration(hs, q, msg, rk, res) ==
  LET handler == hs[<<q, rk>>]
  IN IF handler = Undefined
     THEN [unhandle |-> << <<q, msg, rk>> >>,
           returned |-> Call(DefaultHandler, msg, rk, "ok")]
     ELSE [unhandle |-> <<>>, returned |-> Call(handler, msg, rk, res)]

\* listener.js:67-76  the function returned by createConsumeHandler(queue)
ConsumeHandlerAtDispatch(hs, q, msg, rk, res) ==
  LET handler == hs[<<q, rk>>]
  IN IF handler = Undefined
     THEN [unhandle |-> << <<q, msg, rk>> >>,
           returned |-> Call(CoWrapFn(DefaultHandler), msg, rk, "ok")]
     ELSE [unhandle |-> <<>>,
           returned |-> Call(CoWrapFn(handler), msg, rk, res)]

\* what the consumer and the listener's observers see of a dispatch
Observed(d) ==
  [unhandle |-> d.unhandle, ran |-> Yield(d.returned).ran,
   completion |-> Yield(d.returned).completion]

NoRun ==
  [queue |-> "none", key |-> "none", msg |-> 0, res |-> "ok",
   handler |-> Undefined,
   atRegistration |-> [unhandle |-> <<>>, ran |-> <<>>,
                       completion |-> "none"],
   atDispatch |-> [unhandle |-> <<>>, ran |-> <<>>, completion |-> "none"]]

VariantInit ==
  /\ handlersGiven = [c \in Queues \X Keys |-> Undefined]
  /\ handlersReg = [c \in Queues \X Keys |-> Undefined]
  /\ handlersDisp = [c \in Queues \X Keys |-> Undefined]
  /\ variantRun = NoRun
  /\ callbackDeliveries = <<>>

\* addHandler(queue, key, handler) in both variants
VariantAddHandler(q, k, h) ==
  /\ handlersGiven' = [handlersGiven EXCEPT ![<<q, k>>] = h]
  /\ handlersReg' = [handlersReg EXCEPT ![<<q, k>>] = StoredAtRegistration(h)]
  /\ handlersDisp' = [handlersDisp EXCEPT ![<<q, k>>] = StoredAtDispatch(h)]
  /\ UNCHANGED <<variantRun, callbackDeliveries>>

\* a message of a queue that has handlers is dispatched in both variants
VariantDispatch(q, msg, rk, res) ==
  /\ \E k \in Keys : handlersGiven[<<q, k>>] # Undefined
  /\ variantRun' =
       [queue |-> q, key |-> rk, msg |-> msg, res |-> res,
        handler |-> handlersGiven[<<q, rk>>],
        atRegistration |->
          Observed(ConsumeHandlerAtRegistration(handlersReg, q, msg, rk, res)),
        atDispatch |->
          Observed(ConsumeHandlerAtDispatch(handlersDisp, q, msg, rk, res))]
  /\ UNCHANGED <<handlersGiven, handlersReg, handlersDisp,
                 callbackDeliveries>>

\* ---- the consume variant whose handler gets a completion callback
\* unnamed/part_004 passes the handler a third argument, a callback that
\* acks or nacks, and keeps a flag messageAcknowledgementHandled per delivery.

\* part_004:73-82  _consumeMessage up to its first suspension: a payload that
\* does not decode is acked at once; otherwise the handler is invoked
CallbackConsumeStart(valid) ==
  IF ~Decodes(valid)
  THEN [valid |-> valid, st |-> "done", handled |-> FALSE, acks |-> 1,
        nacks |-> 0, cbs |-> <<>>]
  ELSE [valid |-> valid, st |-> "handling", handled |-> FALSE, acks |-> 0,
        nacks |-> 0, cbs |-> <<>>]

\* part_004:85-92  the callback given to the handler, called with an error
\* (err) or without: it sets the flag and nacks or acks
CallbackInvoked(d, err) ==
  IF err
  THEN [d EXCEPT !.handled = TRUE, !.nacks = @ + 1, !.cbs = Append(@, err)]
  ELSE [d EXCEPT !.handled = TRUE, !.acks = @ + 1, !.cbs = Append(@, err)]

\* part_004:93-100  _consumeMessage resumed by the handler's completion: a
\* failure is nacked in the catch block; after a success the message is
\* acked unless the flag is set
CallbackConsumeResume(d, res) ==
  IF Settled(res) = "rejected"
  THEN [d EXCEPT !.st = "done", !.handled = TRUE, !.nacks = @ + 1]
  ELSE IF d.handled THEN [d EXCEPT !.st = "done"]
  ELSE [d EXCEPT !.st = "done", !.handled = TRUE, !.acks = @ + 1]

variantFrame == <<handlersGiven, handlersReg, handlersDisp, variantRun>>

\* the transport hands a message to _consumeMessage
CallbackDeliver(valid) ==
  /\ Len(callbackDeliveries) < MaxDeliveries
  /\ callbackDeliveries' =
       Append(callbackDeliveries, CallbackConsumeStart(valid))
  /\ UNCHANGED variantFrame

\* the running handler of delivery i calls its completion callback
CallbackCall(i, err) ==
  /\ i \in DOMAIN callbackDeliveries
  /\ callbackDeliveries[i].st = "handling"
  /\ Len(callbackDeliveries[i].cbs) < MaxCallbacks
  /\ callbackDeliveries' = [callbackDeliveries EXCEPT ![i] =
       CallbackInvoked(@, err)]
  /\ UNCHANGED variantFrame

\* the handler of delivery i returns normally (its completion resolves) or
\* throws (its completion rejects)
CallbackComplete(i, res) ==
  /\ i \in DOMAIN callbackDeliveries
  /\ callbackDeliveries[i].st = "handling"
  /\ callbackDeliveries' = [callbackDeliveries EXCEPT ![i] =
       CallbackConsumeResume(@, res)]
  /\ UNCHANGED variantFrame

\* ================================================================ shutdown
\* close(forceClose), the 'close' observer of the connection
\* (handleExitOnConnectionClose), the close_cleanup event and the
\* cleanup-grace timer (options.processExitCleanupTimeout) are documented in
\* README.md, declared in index.d.ts and exercised by
\* test/lib/client.test.js; lib/client.js does not contain them. This part of
\* the model follows their description. The process ends at its first
\* termination: nothing happens afterwards.

\* options.processExitCleanupTimeout, in clock ticks
ProcessExitCleanupTimeout == 2

\* the client variables that a shutdown leaves alone
shutdownFrame == <<conns, createPc, observers, closeObservers, timers,
                   reconnects, errorEvents, spuriousEvents, closePc,
                   secondClose, clientEvents, consumers, deliveries,
                   publishes, setupCalls>>

\* a close that terminates the process whatever forceClose is
FinishCloseAlwaysExiting(k, force, log) ==
  /\ exits' = exits + 1
  /\ shutdownLog' = log \o << <<"closed", k>>, <<"exit", k>> >>

\* close(forceClose) once the connection is closed: the process is terminated
\* when forceClose is true; log is the shutdown log up to there
FinishClose(k, force, log) ==
  IF force
  THEN /\ exits' = exits + 1
       /\ shutdownLog' = log \o << <<"closed", k>>, <<"exit", k>> >>
  ELSE /\ exits' = exits
       /\ shutdownLog' = Append(log, <<"closed", k>>)

\* close(forceClose) is called by the caller or by the grace timer (which
\* waited for so many ticks): on a closed client it is a no-op that completes
\* at once; otherwise the connection's close is issued and awaited
StartClose(force, by, waited) ==
  LET k == Len(closeCalls) + 1
      call == [force |-> force, by |-> by, waited |-> waited]
      log == Append(shutdownLog, <<"close", k>>)
  IN IF connection = 0
     THEN /\ closeCalls' = Append(closeCalls,
               call @@ [pc |-> "done", issued |-> FALSE])
          /\ FinishClose(k, force, log)
          /\ UNCHANGED <<connection, channel, dead, closeOps>>
     ELSE /\ closeCalls' = Append(closeCalls,
               call @@ [pc |-> "closing", issued |-> TRUE])
          /\ closeOps' = closeOps + 1
          /\ dead' = dead \cup {connection}
          /\ shutdownLog' = log
          /\ UNCHANGED <<connection, channel, exits>>

\* the caller calls client.close(forceClose)
CallClose(force) ==
  /\ exits = 0
  /\ Cardinality({k \in DOMAIN closeCalls : closeCalls[k].by = "caller"})
       < MaxCloseCalls
  /\ StartClose(force, "caller", 0)
  /\ UNCHANGED <<closeEvents, cleanupEvents, subscribed, cleanup, graceTimers>>
  /\ UNCHANGED shutdownFrame

\* the connection's close awaited by close call k completed: the fields are
\* set to null and the call finishes
CloseCompleted(k) ==
  /\ exits = 0
  /\ k \in DOMAIN closeCalls
  /\ closeCalls[k].pc = "closing"
  /\ closeCalls' = [closeCalls EXCEPT ![k].pc = "done"]
  /\ connection' = 0
  /\ channel' = 0
  /\ FinishClose(k, closeCalls[k].force, shutdownLog)
  /\ UNCHANGED <<dead, closeOps, closeEvents, cleanupEvents, subscribed,
                 cleanup, graceTimers>>
  /\ UNCHANGED shutdownFrame

\* a handler that starts the grace timer without emitting close_cleanup
HandleExitWithoutCleanupEvent ==
  /\ cleanupEvents' = cleanupEvents
  /\ cleanup' = cleanup
  /\ graceTimers' = Append(graceTimers, NewTimer(ProcessExitCleanupTimeout))
  /\ shutdownLog' = shutdownLog

\* a handler that force-closes at once instead of starting the grace timer
HandleExitWithoutGrace ==
  /\ cleanupEvents' = cleanupEvents + 1
  /\ cleanup' = IF subscribed THEN "running" ELSE cleanup
  /\ graceTimers' = Append(graceTimers, NewTimer(0))
  /\ shutdownLog' = Append(shutdownLog, <<"close_cleanup", 0>>)

\* handleExitOnConnectionClose: emits close_cleanup (a subscriber starts its
\* cleanup) and starts the cleanup-grace timer
HandleExitOnConnectionClose ==
  /\ cleanupEvents' = cleanupEvents + 1
  /\ cleanup' = IF subscribed THEN "running" ELSE cleanup
  /\ graceTimers' = Append(graceTimers, NewTimer(ProcessExitCleanupTimeout))
  /\ shutdownLog' = Append(shutdownLog, <<"close_cleanup", 0>>)

\* the connection emits 'close' (once: closed by the broker, or after a close
\* of the client) and its 'close' observer runs
ConnectionCloseEvent ==
  /\ exits = 0
  /\ closeEvents = 0
  /\ closeObservers[1] > 0
  /\ closeEvents' = closeEvents + 1
  /\ dead' = dead \cup {1}
  /\ HandleExitOnConnectionClose
  /\ UNCHANGED <<connection, channel, closeOps, closeCalls, exits, subscribed>>
  /\ UNCHANGED shutdownFrame

\* the subscriber's cleanup finishes (it may never do)
CleanupFinishes ==
  /\ exits = 0
  /\ cleanup = "running"
  /\ cleanup' = "done"
  /\ UNCHANGED <<connection, channel, dead, closeOps, closeCalls, exits,
                 closeEvents, cleanupEvents, subscribed, graceTimers,
                 shutdownLog>>
  /\ UNCHANGED shutdownFrame

\* one clock tick passes while the grace timer is pending
GraceTick ==
  /\ exits = 0
  /\ \E t \in DOMAIN graceTimers : ~Expired(graceTimers[t])
  /\ graceTimers' = [t \in DOMAIN graceTimers |->
                       IF Expired(graceTimers[t]) THEN graceTimers[t]
                       ELSE [graceTimers[t] EXCEPT !.waited = @ + 1]]
  /\ UNCHANGED <<connection, channel, dead, closeOps, closeCalls, exits,
                 closeEvents, cleanupEvents, subscribed, cleanup, shutdownLog>>
  /\ UNCHANGED shutdownFrame

\* the grace timer fires: its callback calls close(true), whatever the state
\* of the subscriber's cleanup
GraceTimerFire ==
  /\ exits = 0
  /\ graceTimers # <<>>
  /\ Expired(Head(graceTimers))
  /\ graceTimers' = Tail(graceTimers)
  /\ StartClose(TRUE, "timer", Head(graceTimers).waited)
  /\ UNCHANGED <<closeEvents, cleanupEvents, subscribed, cleanup>>
  /\ UNCHANGED shutdownFrame

ShutdownInit ==
  /\ closeCalls = <<>>
  /\ exits = 0
  /\ closeEvents = 0
  /\ cleanupEvents = 0
  /\ subscribed \in BOOLEAN
  /\ cleanup = "none"
  /\ graceTimers = <<>>
  /\ shutdownLog = <<>>

\* the shutdown state of a client on which close(forceClose) was not called
\* and whose connection emitted no 'close' event
ShutdownIdle ==
  /\ ShutdownInit
  /\ subscribed = FALSE

\* the listener before any use, in the specification of the client alone
ListenerIdle ==
  /\ ListenerInit
  /\ VariantInit
  /\ injected = FALSE

Init ==
  /\ ClientInit
  /\ ListenerIdle
  /\ ShutdownIdle

Next ==
  \/ \E q \in Queues : Consume(q) /\ UNCHANGED nonClientVars
  \/ \E q \in Queues, p \in Payloads :
       Deliver(q, p[1], p[2]) /\ UNCHANGED nonClientVars
  \/ \E i \in 1..MaxDeliveries : Complete(i) /\ UNCHANGED nonClientVars
  \/ CloseStart /\ UNCHANGED nonClientVars
  \/ CloseDone /\ UNCHANGED nonClientVars
  \/ CloseRejected /\ UNCHANGED nonClientVars
  \/ CloseAgain /\ UNCHANGED nonClientVars
  \/ \E c \in 1..(MaxErrors + 1), err \in ErrorPayloads :
       ErrorEvent(c, err) /\ UNCHANGED nonClientVars
  \/ Tick /\ UNCHANGED nonClientVars
  \/ TimerFire /\ UNCHANGED nonClientVars
  \/ \E r \in 1..MaxErrors : ConnectOk(r) /\ UNCHANGED nonClientVars
  \/ \E r \in 1..MaxErrors : ConnectFail(r) /\ UNCHANGED nonClientVars
  \/ \E r \in 1..MaxErrors : ChannelOk(r) /\ UNCHANGED nonClientVars
  \/ \E r \in 1..MaxErrors : ChannelFail(r) /\ UNCHANGED nonClientVars

Spec == Init /\ [][Next]_vars

\* the calls of a caller on one client through errors and reconnection
NextCalls ==
  \/ SetupQueueCall("X", "qA", "k1") /\ UNCHANGED nonClientVars
  \/ \E i \in 1..MaxSetups : SetupQueueStep(i) /\ UNCHANGED nonClientVars
  \/ \E i \in 1..MaxSetups : SetupQueueFail(i) /\ UNCHANGED nonClientVars
  \/ Consume("qA") /\ UNCHANGED nonClientVars
  \/ Publish("X", "k1", "1", "o1", TRUE) /\ UNCHANGED nonClientVars
  \/ CloseStart /\ UNCHANGED nonClientVars
  \/ CloseDone /\ UNCHANGED nonClientVars
  \/ CloseRejected /\ UNCHANGED nonClientVars
  \/ \E c \in 1..(MaxErrors + 1), err \in ErrorPayloads :
       ErrorEvent(c, err) /\ UNCHANGED nonClientVars
  \/ Tick /\ UNCHANGED nonClientVars
  \/ TimerFire /\ UNCHANGED nonClientVars
  \/ \E r \in 1..MaxErrors : ConnectOk(r) /\ UNCHANGED nonClientVars
  \/ \E r \in 1..MaxErrors : ConnectFail(r) /\ UNCHANGED nonClientVars
  \/ \E r \in 1..MaxErrors : ChannelOk(r) /\ UNCHANGED nonClientVars
  \/ \E r \in 1..MaxErrors : ChannelFail(r) /\ UNCHANGED nonClientVars

SpecCalls == Init /\ [][NextCalls]_vars

\* setupQueue and listen of one client through errors, reconnection and close
NextSetup ==
  \/ \E q \in Queues :
       SetupQueueCall("X", q, "k1") /\ UNCHANGED nonClientVars
  \/ \E q \in Queues :
       ClientListenCall("X", q, "k1") /\ UNCHANGED nonClientVars
  \/ \E i \in 1..MaxSetups : SetupQueueStep(i) /\ UNCHANGED nonClientVars
  \/ \E i \in 1..MaxSetups : SetupQueueFail(i) /\ UNCHANGED nonClientVars
  \/ CloseStart /\ UNCHANGED nonClientVars
  \/ CloseDone /\ UNCHANGED nonClientVars
  \/ CloseRejected /\ UNCHANGED nonClientVars
  \/ \E c \in 1..(MaxErrors + 1) :
       ErrorEvent(c, "error") /\ UNCHANGED nonClientVars
  \/ Tick /\ UNCHANGED nonClientVars
  \/ TimerFire /\ UNCHANGED nonClientVars
  \/ \E r \in 1..MaxErrors : ConnectOk(r) /\ UNCHANGED nonClientVars
  \/ \E r \in 1..MaxErrors : ConnectFail(r) /\ UNCHANGED nonClientVars
  \/ \E r \in 1..MaxErrors : ChannelOk(r) /\ UNCHANGED nonClientVars
  \/ \E r \in 1..MaxErrors : ChannelFail(r) /\ UNCHANGED nonClientVars

SpecSetup == Init /\ [][NextSetup]_vars

\* the reconnection of one client when a lost connection may report its loss
\* more than once
NextReconnect ==
  \/ \E c \in 1..(MaxErrors + MaxRepeats + 1), err \in ErrorPayloads :
       ErrorEvent(c, err) /\ UNCHANGED nonClientVars
  \/ \E c \in 1..(MaxErrors + MaxRepeats + 1) :
       RepeatedErrorEvent(c) /\ UNCHANGED nonClientVars
  \/ Tick /\ UNCHANGED nonClientVars
  \/ TimerFire /\ UNCHANGED nonClientVars
  \/ \E r \in 1..(MaxErrors + MaxRepeats) :
       ConnectOk(r) /\ UNCHANGED nonClientVars
  \/ \E r \in 1..(MaxErrors + MaxRepeats) :
       ConnectFail(r) /\ UNCHANGED nonClientVars
  \/ \E r \in 1..(MaxErrors + MaxRepeats) :
       ChannelOk(r) /\ UNCHANGED nonClientVars
  \/ \E r \in 1..(MaxErrors + MaxRepeats) :
       ChannelFail(r) /\ UNCHANGED nonClientVars

SpecReconnect == Init /\ [][NextReconnect]_vars

\* createClient from its call on: the client is used once it was returned
InitCreate ==
  /\ CreateInit
  /\ ListenerIdle
  /\ ShutdownIdle

NextCreate ==
  \/ CreateConnectOk /\ UNCHANGED nonClientVars
  \/ CreateConnectFail /\ UNCHANGED nonClientVars
  \/ CreateChannelOk /\ UNCHANGED nonClientVars
  \/ CreateChannelFail /\ UNCHANGED nonClientVars
  \/ createPc = "returned" /\ NextCalls

SpecCreate == InitCreate /\ [][NextCreate]_vars

\* publish during the life of the connection: errors, reconnection, close
NextPublish ==
  \/ \E ex \in Exchanges, key \in Keys, msg \in Messages, acc \in BOOLEAN :
       Publish(ex, key, msg, "o1", acc) /\ UNCHANGED nonClientVars
  \/ CloseStart /\ UNCHANGED nonClientVars
  \/ CloseDone /\ UNCHANGED nonClientVars
  \/ \E c \in 1..(MaxErrors + 1) :
       ErrorEvent(c, "error") /\ UNCHANGED nonClientVars
  \/ Tick /\ UNCHANGED nonClientVars
  \/ TimerFire /\ UNCHANGED nonClientVars
  \/ \E r \in 1..MaxErrors : ConnectOk(r) /\ UNCHANGED nonClientVars
  \/ \E r \in 1..MaxErrors : ConnectFail(r) /\ UNCHANGED nonClientVars
  \/ \E r \in 1..MaxErrors : ChannelOk(r) /\ UNCHANGED nonClientVars
  \/ \E r \in 1..MaxErrors : ChannelFail(r) /\ UNCHANGED nonClientVars

SpecPublish == Init /\ [][NextPublish]_vars

InitShutdown ==
  /\ ClientInit
  /\ ListenerIdle
  /\ ShutdownInit

NextShutdown ==
  \/ \E force \in BOOLEAN : CallClose(force) /\ UNCHANGED nonShutdownVars
  \/ \E k \in 1..(MaxCloseCalls + 1) :
       CloseCompleted(k) /\ UNCHANGED nonShutdownVars
  \/ ConnectionCloseEvent /\ UNCHANGED nonShutdownVars
  \/ CleanupFinishes /\ UNCHANGED nonShutdownVars
  \/ GraceTick /\ UNCHANGED nonShutdownVars
  \/ GraceTimerFire /\ UNCHANGED nonShutdownVars

\* time passes, an expired timer fires and the transport completes a close
SpecShutdown ==
  /\ InitShutdown
  /\ [][NextShutdown]_vars
  /\ WF_vars(GraceTick /\ UNCHANGED nonShutdownVars)
  /\ WF_vars(GraceTimerFire /\ UNCHANGED nonShutdownVars)
  /\ \A k \in 1..(MaxCloseCalls + 1) :
       WF_vars(CloseCompleted(k) /\ UNCHANGED nonShutdownVars)

InitListener ==
  /\ ClientInit
  /\ ListenerInit
  /\ VariantInit
  /\ ShutdownIdle

\* The caller registers its handlers before it calls listen: the registry is
\* read-only once listening begins (listener.js:47).
NextListener ==
  \/ \E a \in ListenerAdds :
       /\ listens = <<>>
       /\ adds < MaxAdds
       /\ AddHandler(a[1], a[2], a[3])
       /\ UNCHANGED nonListenerVars
  \/ \E a \in ListenArgs : ListenCall(a) /\ UNCHANGED nonListenerVars
  \/ \E i \in 1..MaxListens : ClientCreated(i) /\ UNCHANGED nonListenerVars
  \/ \E i \in 1..MaxListens : ClientFailed(i) /\ UNCHANGED nonListenerVars
  \/ \E i \in 1..MaxListens : CallReturns(i) /\ UNCHANGED nonListenerVars
  \/ \E i \in 1..MaxListens : CallFails(i) /\ UNCHANGED nonListenerVars
  \/ \E q \in Queues, rk \in Keys, res \in {"ok", "throw"} :
       Dispatch(q, rk, TRUE, res) /\ UNCHANGED nonListenerVars
  \/ \E q \in Queues : Dispatch(q, "k1", FALSE, "ok") /\ UNCHANGED nonListenerVars

SpecListener == InitListener /\ [][NextListener]_vars

\* the listener through a reconnection of its client: the handlers are
\* registered, listen is called once, and the client variables are those of
\* the client that listen obtained
NextListenerReconnect ==
  \/ \E a \in ListenerAdds :
       /\ listens = <<>>
       /\ adds < MaxAdds
       /\ AddHandler(a[1], a[2], a[3])
       /\ UNCHANGED nonListenerVars
  \/ \E a \in ListenArgs :
       listens = <<>> /\ ListenCall(a) /\ UNCHANGED nonListenerVars
  \/ ClientCreated(1) /\ UNCHANGED nonListenerVars
  \/ CallReturns(1) /\ UNCHANGED nonListenerVars
  \/ \E q \in Queues, rk \in Keys :
       Dispatch(q, rk, TRUE, "ok") /\ UNCHANGED nonListenerVars
  \/ \E c \in 1..(MaxErrors + 1) :
       lclient # 0 /\ ErrorEvent(c, "error") /\ UNCHANGED nonClientVars
  \/ Tick /\ UNCHANGED nonClientVars
  \/ TimerFire /\ UNCHANGED nonClientVars
  \/ \E r \in 1..MaxErrors : ConnectOk(r) /\ UNCHANGED nonClientVars
  \/ \E r \in 1..MaxErrors : ConnectFail(r) /\ UNCHANGED nonClientVars
  \/ \E r \in 1..MaxErrors : ChannelOk(r) /\ UNCHANGED nonClientVars
  \/ \E r \in 1..MaxErrors : ChannelFail(r) /\ UNCHANGED nonClientVars

\* every call that is awaited returns, time passes and timers fire
SpecListenerReconnect ==
  /\ InitListener
  /\ [][NextListenerReconnect]_vars
  /\ WF_vars(NextListenerReconnect)

\* the registry alone: any sequence of addHandler calls
NextRegistry ==
  \E q \in Queues, k \in Keys, h \in HandlerIds :
    /\ adds < MaxRegistryAdds
    /\ AddHandler(q, k, h)
    /\ UNCHANGED nonListenerVars

SpecRegistry == InitListener /\ [][NextRegistry]_vars

\* the two listener variants run side by side on the same registrations and
\* the same deliveries
NextVariants ==
  \/ \E q \in Queues, k \in Keys, h \in UserHandlers :
       VariantAddHandler(q, k, h) /\ UNCHANGED nonVariantVars
  \/ \E q \in Queues, rk \in Keys, msg \in {1, 2}, res \in {"ok", "throw"} :
       VariantDispatch(q, msg, rk, res) /\ UNCHANGED nonVariantVars

SpecVariants == Init /\ [][NextVariants]_vars

\* the deliveries of the consume variant with a completion callback
NextCallback ==
  \/ \E valid \in BOOLEAN : CallbackDeliver(valid) /\ UNCHANGED nonVariantVars
  \/ \E i \in 1..MaxDeliveries, err \in BOOLEAN :
       CallbackCall(i, err) /\ UNCHANGED nonVariantVars
  \/ \E i \in 1..MaxDeliveries, res \in {"ok", "throw"} :
       CallbackComplete(i, res) /\ UNCHANGED nonVariantVars

SpecCallback == Init /\ [][NextCallback]_vars

\* ================================================================ claims
Failed(d) == d.valid /\ d.st = "done" /\ HandlerOutcome(d.beh) = "rejected"

\* C1: for every delivery whose payload decodes, a handler that completes
\* successfully leads to an ack, a handler that fails leads to a nack, and in
\* total exactly one ack or nack is issued for the delivery, never both and
\* never twice.
C1_AckOrNackExactlyOnce ==
  \A i \in DOMAIN deliveries :
    LET d == deliveries[i]
    IN d.valid =>
         /\ d.acks + d.nacks <= 1
         /\ d.st = "done" =>
               IF HandlerOutcome(d.beh) = "resolved"
               THEN d.acks = 1 /\ d.nacks = 0
               ELSE d.nacks = 1 /\ d.acks = 0

\* C2: a delivery whose payload is not valid JSON is acked exactly once, never
\* nacked, its handler is never invoked and exactly one consume_error event is
\* emitted for it.
C2_InvalidPayloadAcked ==
  \A i \in DOMAIN deliveries :
    LET d == deliveries[i]
    IN ~d.valid =>
         /\ d.st = "done"
         /\ d.acks = 1
         /\ d.nacks = 0
         /\ d.hcalls = 0
         /\ d.events = <<"invalid">>

C2_Witness ==
  \E i \in DOMAIN deliveries :
    /\ ~deliveries[i].valid
    /\ deliveries[i].acks = 1
    /\ clientEvents["consume_error"] >= 1

\* C3: a handler failure never stops consumption: every failed delivery has
\* emitted exactly one consume_error event carrying the delivery, and every
\* delivery that came later on the same queue is still decoded, handed to the
\* handler and acked or nacked.
C3_FailureNeverStopsConsumption ==
  /\ \A i \in DOMAIN deliveries :
       Failed(deliveries[i]) => deliveries[i].events = <<"handler">>
  /\ \A i, j \in DOMAIN deliveries :
       (/\ i < j
        /\ deliveries[i].queue = deliveries[j].queue
        /\ Failed(deliveries[i])
        /\ deliveries[j].st = "done")
       => /\ deliveries[j].valid => deliveries[j].hcalls = 1
          /\ deliveries[j].acks + deliveries[j].nacks = 1

\* C4: a handler that signals failure by calling its completion callback with
\* an error is treated as a handler that throws: the message is nacked and
\* is not acked.
C4_CallbackErrorNacked ==
  \A i \in DOMAIN deliveries :
    LET d == deliveries[i]
    IN (d.valid /\ d.beh = "cberr" /\ d.st = "done")
       => d.nacks = 1 /\ d.acks = 0

Dispatched == lastDispatch.msg # 0 /\ lastDispatch.valid

\* C5: the dispatch function of a queue, called with a message whose routing
\* key has a handler registered on that queue, invokes that handler once with
\* (message, fields), invokes no other handler, and its completion succeeds
\* or fails as the handler does.
C5_RightHandlerInvoked ==
  (Dispatched /\ lastDispatch.registered # NoHandler) =>
    /\ lastDispatch.out.invoked =
         << <<lastDispatch.registered, lastDispatch.msg, lastDispatch.rk>> >>
    /\ lastDispatch.out.unhandle = <<>>
    /\ lastDispatch.res = "ok" => lastDispatch.out.completion = "resolved"
    /\ lastDispatch.res = "throw" => lastDispatch.out.completion = "rejected"

C5_Witness ==
  /\ Dispatched
  /\ Registered(lastDispatch.queue, "k1") = "h1"
  /\ Registered(lastDispatch.queue, "k2") = "h2"
  /\ lastDispatch.rk = "k2"
  /\ lastDispatch.out.invoked = << <<"h2", lastDispatch.msg, "k2">> >>
  /\ lastDispatch.res = "throw"
  /\ lastDispatch.out.completion = "rejected"

\* C6: a delivery whose routing key has no handler on its queue invokes no
\* handler, emits exactly one unhandle(queue, message, fields) event, its
\* dispatch completes successfully so that the message is acked and not
\* nacked, and no consume_error / handle_error event is emitted for it.
C6_UnroutedAcked ==
  (Dispatched /\ lastDispatch.registered = NoHandler) =>
    /\ lastDispatch.out.invoked = <<>>
    /\ lastDispatch.out.unhandle =
         << <<lastDispatch.queue, lastDispatch.msg, lastDispatch.rk>> >>
    /\ lastDispatch.out.completion = "resolved"
    /\ lastDispatch.delivery.acks = 1
    /\ lastDispatch.delivery.nacks = 0
    /\ lastDispatch.delivery.events = <<>>
    /\ lastDispatch.handleErrors = 0

C6_Witness ==
  /\ Dispatched
  /\ lastDispatch.registered = NoHandler
  /\ listenerEvents["unhandle"] = 1
  /\ listenerEvents["handle_error"] = 0
  /\ lastDispatch.delivery.acks = 1

\* C7: a listen call made after an earlier listen call has completed is a
\* no-op whatever its arguments: it issues no setupQueue and no consume call,
\* obtains no client and emits no connect; when every call but one was made
\* after a completed one, connect has been emitted exactly once.
C7_SecondListenIsNoop ==
  /\ \A i \in DOMAIN listens :
       listens[i].afterDone =>
         /\ listens[i].pc = "done"
         /\ calls[i] = <<>>
         /\ listens[i].obtained = 0
         /\ listens[i].connects = 0
  /\ (\E j \in DOMAIN listens :
        /\ listens[j].pc = "done"
        /\ \A i \in DOMAIN listens \ {j} : listens[i].afterDone)
     => listenerEvents["connect"] = 1

C7_Witness ==
  /\ Len(listens) = 2
  /\ listens[1].pc = "done"
  /\ calls[1] # <<>>
  /\ listens[2].afterDone
  /\ listens[2].exchange # listens[1].exchange
  /\ listenerEvents["connect"] = 1

\* C8: with no injected client, under every interleaving of listen calls at
\* most one client is created and at most one listen call runs the setup /
\* consume sequence.
C8_AtMostOneClient ==
  ~injected =>
    /\ clientsCreated <= 1
    /\ Cardinality({i \in DOMAIN listens : listens[i].obtained > 0}) <= 1

IsSetupQueue(c) == c.op = "setupQueue"

IsConsume(c) == c.op = "consume"

\* C9: when a listen call that obtained the client completes, it has called
\* setupQueue exactly once per registered (queue, key) pair with its own
\* (exchange, queue, key, opts), and consume exactly once per queue, in the
\* order the queues were registered; at any time, a queue's consume call is
\* issued only after the setupQueue calls of that queue (and every earlier
\* call) have completed.
C9_SetupThenConsumePerQueue ==
  \A i \in DOMAIN listens :
    LET mine == calls[i]
        setups == SelectSeq(mine, IsSetupQueue)
        consumes == SelectSeq(mine, IsConsume)
    IN /\ \A n \in DOMAIN mine :
            mine[n].op = "consume" =>
              \A m \in 1..(n - 1) : mine[m].st = "ok"
       /\ (listens[i].pc = "done" /\ listens[i].obtained > 0) =>
            /\ \A n \in DOMAIN mine : mine[n].st = "ok"
            /\ \A p \in DOMAIN lastGiven :
                 Cardinality({n \in DOMAIN setups :
                   /\ setups[n].queue = p[1]
                   /\ setups[n].key = p[2]
                   /\ setups[n].exchange = listens[i].exchange
                   /\ setups[n].opts = listens[i].opts}) = 1
            /\ Len(setups) = Cardinality(DOMAIN lastGiven)
            /\ [n \in DOMAIN consumes |-> consumes[n].queue] = firstSeen
            /\ \A n, m \in DOMAIN mine :
                 (/\ mine[n].op = "setupQueue"
                  /\ mine[m].op = "consume"
                  /\ mine[n].queue = mine[m].queue) => n < m

C9_Witness ==
  \E i \in DOMAIN listens :
    /\ listens[i].pc = "done"
    /\ listens[i].exchange = "Y"
    /\ firstSeen = <<"qB", "qA">>
    /\ Cardinality(DOMAIN lastGiven) = 3
    /\ Len(SelectSeq(calls[i], IsSetupQueue)) = 3
    /\ Len(SelectSeq(calls[i], IsConsume)) = 2

\* C10: after any sequence of addHandler calls, queues holds each registered
\* queue exactly once in order of first registration, the names in it are the
\* queues that have a handler map, and handlers[queue][key] is the handler
\* of the last addHandler call for (queue, key).
C10_RegistryInvariant ==
  /\ queues = firstSeen
  /\ \A n, m \in DOMAIN queues : queues[n] = queues[m] => n = m
  /\ Range(queues) = DOMAIN handlers
  /\ Range(queues) = {p[1] : p \in DOMAIN lastGiven}
  /\ \A q \in DOMAIN handlers :
       \A k \in Keys : Get(handlers[q], k) = Registered(q, k)

C10_Witness ==
  /\ queues = <<"qB", "qA">>
  /\ <<"qB", "k1">> \in replaced
  /\ Get(handlers["qB"], "k1") = "h2"
  /\ adds = 4

\* C11: close is idempotent: a close call made on a client that has already
\* been closed completes without an error, makes no call on the transport and
\* leaves connection and channel null.
C11_CloseIdempotent ==
  secondClose # "none" =>
    /\ secondClose = "resolved"
    /\ closeOps = 1
    /\ connection = 0
    /\ channel = 0

\* C12: once close() on a connected client has completed, the transport
\* connection has been closed exactly once and the client's connection and
\* channel fields are both null.
C12_CloseNullsBoth ==
  closePc = "closed" =>
    /\ closeOps = 1
    /\ connection = 0
    /\ channel = 0

C12_Witness ==
  /\ closePc = "closed"
  /\ conns = 2
  /\ 2 \in dead
  /\ clientEvents["connected"] = 2
  /\ channel = 0

ForcedCalls == {k \in DOMAIN closeCalls : closeCalls[k].force}

TimerCalls == {k \in DOMAIN closeCalls : closeCalls[k].by = "timer"}

ExitSteps == {i \in DOMAIN shutdownLog : shutdownLog[i][1] = "exit"}

C16_OneDelayedReconnectPerError ==
  /\ clientEvents["connection_error"] = errorEvents
  /\ Len(timers) + Len(reconnects) = errorEvents
  /\ \A t \in DOMAIN timers : timers[t].delay = ReconnectTimeout
  /\ \A r \in DOMAIN reconnects : reconnects[r].waited >= ReconnectTimeout
  /\ clientEvents["connected"] =
       1 + Cardinality({r \in DOMAIN reconnects : reconnects[r].pc = "done"})
  /\ \A r \in DOMAIN reconnects :
       (reconnects[r].pc = "done" /\ Live(reconnects[r].conn)) =>
         /\ connection = reconnects[r].conn
         /\ channel = reconnects[r].conn
         /\ observers[connection] = 1

C16_Witness ==
  /\ errorEvents = 1
  /\ spuriousEvents = 1
  /\ clientEvents["connection_error"] = 1
  /\ Len(reconnects) = 1
  /\ reconnects[1].pc = "done"
  /\ Live(channel)
  /\ <<channel, "qA">> \in consumers

\* C17: in every state a caller can observe after createClient returned,
\* channel is non-null exactly when connection is non-null, and a non-null
\* channel is the channel that was created on the current connection.
C17_ChannelOfCurrentConnection ==
  /\ (channel # 0) <=> (connection # 0)
  /\ channel # 0 => channel = connection

\* C18: when the transport rejects the first connect or the first channel
\* creation, createClient fails: no client is returned, no connected event
\* has been emitted, and no reconnect attempt is scheduled or running, nor can
\* one be later since no error observer was registered.
C18_InitialFailureNotRetried ==
  createPc = "failed" =>
    /\ clientEvents = NoClientEvents
    /\ timers = <<>>
    /\ reconnects = <<>>
    /\ channel = 0
    /\ \A c \in 1..conns : observers[c] = 0

C18_Witness ==
  /\ createPc = "failed"
  /\ connection = 1
  /\ channel = 0

\* C19: every consume_error(err, metadata) emitted by a client that listen
\* obtained is re-emitted by the listener as exactly one handle_error event
\* carrying the same (err, metadata), and the listener emits handle_error for
\* no other reason: its handle_error events are those relayed ones.
C19_ConsumeErrorRelayedOnce ==
  /\ [](lastDispatch.msg # 0 =>
          /\ lastDispatch.relayed = lastDispatch.consumeErrors
          /\ lastDispatch.handleErrors = Len(lastDispatch.consumeErrors))
  /\ [][listenerEvents'["handle_error"] - listenerEvents["handle_error"] =
          IF dispatches' # dispatches
          THEN Len(lastDispatch'.consumeErrors) ELSE 0]_vars

C19_Witness ==
  /\ lastDispatch.msg # 0
  /\ ~lastDispatch.valid
  /\ lastDispatch.consumeErrors =
       <<[err |-> "invalid", metadata |-> <<lastDispatch.queue, 1>>]>>
  /\ lastDispatch.relayed = lastDispatch.consumeErrors
  /\ listenerEvents["handle_error"] = 1
  /\ clientsCreated = 2

\* C20: a publish on a client that has a channel makes exactly one publish
\* call on the transport, on the client's current channel, with the given
\* exchange, routing key and options and with the JSON encoding of the
\* message as content; it returns what that call returned; it completes in
\* the turn of its call and changes no state of the client.
C20_PublishOncePassingResult ==
  /\ [](\A n \in DOMAIN publishes :
          LET p == publishes[n]
          IN p.current # 0 =>
               /\ Len(p.sent) = 1
               /\ p.sent[1].chan = p.current
               /\ <<p.sent[1].exchange, p.sent[1].key, p.sent[1].opts>> =
                    <<p.args[1], p.args[2], p.args[4]>>
               /\ JSONParse(p.sent[1].content) = p.args[3]
               /\ p.returned = p.sent[1].result)
  /\ [][Len(publishes') > Len(publishes) =>
          /\ Len(publishes') = Len(publishes) + 1
          /\ UNCHANGED <<connection, channel, conns, dead, observers,
                         closeObservers, timers, reconnects, closePc,
                         clientEvents, consumers, deliveries>>]_vars

C20_Witness ==
  /\ Len(publishes) = 2
  /\ publishes[1].current = 1
  /\ publishes[1].returned = "true"
  /\ publishes[2].current = 2
  /\ publishes[2].returned = "false"
  /\ publishes[2].args[3] = "{toto: 'test'}"
  /\ publishes[2].sent[1].content = "{\"toto\":\"test\"}"

\* C21: the ack or nack of a delivery whose handler was in flight while a
\* reconnect replaced the client's channel is issued on the channel that
\* delivered the message, never on the newly created one.
C21_AckOnDeliveringChannel ==
  \A i \in DOMAIN deliveries :
    LET d == deliveries[i]
    IN d.acks + d.nacks > 0 => d.ackChan = d.chan

PendingReconnect(r) ==
  \/ reconnects[r].pc = "connect"
  \/ reconnects[r].pc = "createChannel" /\ Live(reconnects[r].conn)

C23_ConsumeCallbackNeverRejects ==
  \A i \in DOMAIN deliveries : ~deliveries[i].rejected

\* the client of the listener completed a reconnect: its channel is the one
\* the reconnect created
Reconnected ==
  \E r \in DOMAIN reconnects :
    /\ reconnects[r].pc = "done"
    /\ channel = reconnects[r].conn
    /\ Live(channel)

Subscribed(q, ch) ==
  \E i \in DOMAIN calls :
    \E n \in DOMAIN calls[i] :
      /\ calls[i][n].op = "consume"
      /\ calls[i][n].queue = q
      /\ calls[i][n].chan = ch
      /\ calls[i][n].st = "ok"

\* C24: after the client of a listener has reconnected, the listener calls
\* consume again (after setupQueue) for the queues it was consuming, so that
\* each of them gets a consumer on the client's new channel.
C24_ListenerResubscribes ==
  \A q \in Queues :
    (Reconnected /\ Subscribed(q, 1)) ~> Subscribed(q, channel)

\* a step of the reconnection: a timer fires or a reconnect attempt advances
ReconnectStep ==
  \/ Len(timers') < Len(timers)
  \/ \E r \in DOMAIN reconnects : reconnects'[r].pc # reconnects[r].pc

\* C25: no step of a reconnect makes a setupQueue transport call
\* (assertExchange, assertQueue, bindQueue) or a consume call; the channel a
\* reconnect installs has no consumer when it is installed, and gets one only
\* by a consume call of the caller.
C25_ReconnectSubscribesNothing ==
  /\ [][ReconnectStep =>
          /\ consumers' = consumers
          /\ setupCalls' = setupCalls]_vars
  /\ [][(channel' # channel /\ channel' # 0) =>
          \A q \in Queues : <<channel', q>> \notin consumers']_vars

C25_Witness ==
  /\ Len(reconnects) = 1
  /\ reconnects[1].pc = "done"
  /\ channel = 2
  /\ Live(channel)
  /\ <<1, "qA">> \in consumers
  /\ <<2, "qA">> \notin consumers
  /\ Len(setupCalls) = 1
  /\ setupCalls[1].chans = <<1, 1, 1>>

\* the connection of the last reconnect that succeeded, 0 when none did
LatestReconnect ==
  LET done == {reconnects[r].conn : r \in
                 {n \in DOMAIN reconnects : reconnects[n].pc = "done"}}
  IN IF done = {} THEN 0 ELSE CHOOSE c \in done : \A o \in done : o <= c

\* h is not a handle that a successful reconnect superseded
NotSuperseded(h) == h >= LatestReconnect

LastOf(seq) == seq[Len(seq)]

\* C26: a reconnect that succeeds leaves the client's connection and channel
\* fields holding the connection and the channel it created; from then on
\* the fields are never handles it superseded, and every publish, setupQueue
\* transport call, consume and close is made on the handle in the client's
\* field at that moment.
C26_CallsUseNewHandles ==
  /\ [][\A r \in DOMAIN reconnects :
          (reconnects[r].pc # "done" /\ reconnects'[r].pc = "done") =>
            /\ connection' = reconnects'[r].conn
            /\ channel' = reconnects'[r].conn]_vars
  /\ [](\/ connection = 0 /\ channel = 0
        \/ NotSuperseded(connection) /\ NotSuperseded(channel))
  /\ [][/\ Len(publishes') > Len(publishes) =>
             /\ LastOf(publishes').current = channel
             /\ \A n \in DOMAIN LastOf(publishes').sent :
                  LastOf(publishes').sent[n].chan = channel
        /\ \A p \in consumers' \ consumers : p[1] = channel
        /\ \A i \in DOMAIN setupCalls' :
             LET before == IF i \in DOMAIN setupCalls
                           THEN setupCalls[i].chans ELSE <<>>
                 after == setupCalls'[i].chans
             IN after # before => after = Append(before, channel)
        /\ closeOps' > closeOps => connection \in dead']_vars

C26_Witness ==
  /\ Len(reconnects) = 1
  /\ reconnects[1].pc = "done"
  /\ Len(publishes) = 2
  /\ publishes[1].current = 1
  /\ publishes[2].current = 2
  /\ publishes[2].sent[1].chan = 2
  /\ consumers = {<<1, "qA">>, <<2, "qA">>}
  /\ Len(setupCalls) = 1
  /\ setupCalls[1].chans = <<2, 2, 2>>
  /\ closePc = "closed"
  /\ dead = {1, 2}

\* C27: a connection 'error' event whose payload is an EventEmitter-shaped
\* object is ignored: it emits no event of the client, schedules no
\* reconnect and leaves connection and channel as they are; so does the call
\* _onDisconnection(busClient) that createClient makes before it returns.
C27_EmitterPayloadIgnored ==
  /\ [][spuriousEvents' > spuriousEvents =>
          /\ clientEvents' = clientEvents
          /\ UNCHANGED <<connection, channel, timers, reconnects, dead>>]_vars
  /\ [][(createPc = "createChannel" /\ createPc' = "returned") =>
          /\ clientEvents'["connection_error"] = 0
          /\ timers' = <<>>]_vars
  /\ [](errorEvents = 0 =>
          /\ clientEvents["connection_error"] = 0
          /\ timers = <<>>
          /\ reconnects = <<>>)

C27_Witness ==
  /\ createPc = "returned"
  /\ spuriousEvents = 1
  /\ errorEvents = 0
  /\ clientEvents["connected"] = 1
  /\ clientEvents["connection_error"] = 0
  /\ timers = <<>>
  /\ connection = 1
  /\ channel = 1

\* the client is connected: its fields hold a connection and the channel
\* created on it
Connected == createPc = "returned" /\ connection # 0 /\ channel = connection

Started(d) == d.hcalls > 0

\* C29: the handlers of the deliveries of one queue are started in the order
\* of the deliveries: when the handler of a delivery has been started, so has
\* the handler of every decodable delivery made earlier on that queue.
C29_HandlersStartInDeliveryOrder ==
  \A i, j \in DOMAIN deliveries :
    (/\ i < j
     /\ deliveries[i].queue = deliveries[j].queue
     /\ deliveries[i].valid
     /\ Started(deliveries[j]))
    => Started(deliveries[i])

C29_Witness ==
  /\ Len(deliveries) = 2
  /\ deliveries[1].queue = deliveries[2].queue
  /\ deliveries[1].beh = "cberr"
  /\ deliveries[1].st = "handling"
  /\ deliveries[2].st = "handling"
  /\ Started(deliveries[1])
  /\ Started(deliveries[2])

\* C30: deliveries of one queue are not serialized: the handler of a
\* decodable delivery is started when the delivery arrives, also while the
\* handler of an earlier delivery of the queue is running, each handler in
\* flight can complete whatever the state of the others, and so the ack or
\* nack of a later delivery can precede that of an earlier one.
C30_DeliveriesNotSerialized ==
  \A j \in DOMAIN deliveries :
    /\ deliveries[j].valid => Started(deliveries[j])
    /\ deliveries[j].st = "handling" =>
         ENABLED (Complete(j) /\ UNCHANGED nonClientVars)

C30_Witness ==
  /\ Len(deliveries) = 2
  /\ deliveries[1].queue = deliveries[2].queue
  /\ deliveries[1].st = "handling"
  /\ deliveries[2].valid
  /\ deliveries[2].st = "done"
  /\ deliveries[2].acks = 1
  /\ deliveries[1].acks + deliveries[1].nacks = 0

\* a delivery whose handler was invoked and has not completed
Hung(d) == d.st = "handling"

\* the handler of delivery j completes in this step
Completes(j) ==
  /\ j \in DOMAIN deliveries
  /\ deliveries[j].st = "handling"
  /\ deliveries'[j].st = "done"

C31_HungIsSilent ==
  \A i \in DOMAIN deliveries :
    Hung(deliveries[i]) =>
      /\ deliveries[i].acks = 0
      /\ deliveries[i].nacks = 0
      /\ deliveries[i].events = <<>>

C31_OthersGoOn ==
  \A i, j \in DOMAIN deliveries :
    (i # j /\ Hung(deliveries[i])) =>
      /\ deliveries[j].valid => deliveries[j].hcalls = 1
      /\ Hung(deliveries[j]) =>
           ENABLED (Complete(j) /\ UNCHANGED nonClientVars)

C31_OthersSettled ==
  \A i, j \in DOMAIN deliveries :
    (/\ i # j
     /\ Hung(deliveries[i])
     /\ Hung(deliveries'[i])
     /\ Completes(j)
     /\ channel # 0)
    => /\ deliveries'[j].acks + deliveries'[j].nacks = 1
       /\ deliveries'[i] = deliveries[i]

\* C31: a delivery whose handler has not completed has no ack, no nack and no
\* consume_error, however long that lasts; and it holds nothing up: while it
\* is pending, every other delivery, of the same queue or of another one, has
\* had its handler invoked, can complete, and is acked or nacked once when
\* its handler completes on a client that has a channel.
C31_HungHandlerBlocksOnlyItself ==
  /\ [](C31_HungIsSilent /\ C31_OthersGoOn)
  /\ [][C31_OthersSettled]_vars

C31_Witness ==
  /\ Len(deliveries) = 2
  /\ Hung(deliveries[1])
  /\ deliveries[2].queue = deliveries[1].queue
  /\ deliveries[2].st = "done"
  /\ deliveries[2].acks + deliveries[2].nacks = 1

\* the transport calls of listen, in the order of the code
ListenOps == <<"assertExchange", "assertQueue", "bindQueue", "consume">>

C32_InOrder ==
  \A i \in DOMAIN setupCalls :
    LET r == setupCalls[i]
    IN /\ Len(r.ops) <= (IF r.listen THEN 4 ELSE 3)
       /\ \A n \in DOMAIN r.ops : r.ops[n] = ListenOps[n]
       /\ Len(r.ops) <= r.resolved + 1
       /\ Len(r.ops) = 4 => r.resolved >= 3
       /\ r.pc = "done" <=> r.result = <<"ok">>
       /\ r.pc = "done" =>
            /\ r.resolved = Len(r.ops)
            /\ Len(r.ops) = (IF r.listen THEN 4 ELSE 3)

C32_FailurePropagates ==
  \A i \in DOMAIN setupCalls :
    LET r == setupCalls[i]
    IN /\ r.pc = "failed" <=> r.thrown # <<>>
       /\ r.pc = "failed" => r.result = r.thrown
       /\ r.pc # "failed" => r.result \in {<<"pending">>, <<"ok">>}
       /\ (r.pc = "failed" /\ r.thrown[1] = "rejected") =>
            /\ Len(r.ops) = r.resolved + 1
            /\ r.thrown = TransportError(r.ops[Len(r.ops)])

C32_FailedIsOver ==
  \A i \in DOMAIN setupCalls :
    setupCalls[i].pc = "failed" => setupCalls'[i] = setupCalls[i]

\* C32: setupQueue issues assertExchange, assertQueue and bindQueue in that
\* order, each after the previous one resolved; listen issues consume after
\* them, only once all three resolved; a call that fails issues nothing more
\* and its caller is rejected with the very error the failing call raised.
C32_SetupQueueSequence ==
  /\ [](C32_InOrder /\ C32_FailurePropagates)
  /\ [][C32_FailedIsOver]_vars

C32_Witness ==
  \E i \in DOMAIN setupCalls :
    /\ setupCalls[i].listen
    /\ setupCalls[i].pc = "failed"
    /\ setupCalls[i].ops = <<"assertExchange", "assertQueue", "bindQueue">>
    /\ setupCalls[i].result = TransportError("bindQueue")

\* a dispatch ran the handler h once with (message, fields) and completed as
\* the handler did
RanOnce(o, run) ==
  /\ o.ran = << <<run.handler.id, run.msg, run.key>> >>
  /\ o.completion = Settled(run.res)
  /\ o.unhandle = <<>>

\* C33: for a generator handler and for a promise-returning handler, the
\* variant wrapping at registration and the variant wrapping at dispatch
\* both run the handler once with (message, fields) and complete exactly as
\* it does; for every dispatch the two variants show the same behaviour.
C33_VariantsEquivalent ==
  /\ variantRun.atRegistration = variantRun.atDispatch
  /\ variantRun.handler # Undefined =>
       /\ RanOnce(variantRun.atRegistration, variantRun)
       /\ RanOnce(variantRun.atDispatch, variantRun)

C33_Witness ==
  /\ variantRun.handler # Undefined
  /\ variantRun.handler.shape = "promise"
  /\ variantRun.res = "throw"
  /\ variantRun.atDispatch.completion = "rejected"
  /\ \E c \in Queues \X Keys :
       /\ handlersGiven[c].shape = "generator"
       /\ handlersReg[c] # handlersDisp[c]

\* listen call i failed in its loops: a setupQueue or consume call it awaited
\* was rejected
FailedInLoops(i) ==
  /\ i \in DOMAIN listens
  /\ listens[i].pc = "failed"
  /\ listens[i].obtained > 0

\* queue q is being consumed: a consume call for it has resolved
Consuming(q) ==
  \E i \in DOMAIN calls : \E n \in DOMAIN calls[i] :
    /\ calls[i][n].op = "consume"
    /\ calls[i][n].queue = q
    /\ calls[i][n].st = "ok"

\* the setupQueue / consume calls issued in this step
IssuedNow ==
  {c \in UNION {Range(calls'[i]) : i \in DOMAIN calls'} :
     /\ c.st = "pending"
     /\ \A i \in DOMAIN calls : c \notin Range(calls[i])}

C34_KeepsClient ==
  \A i \in DOMAIN listens :
    FailedInLoops(i) =>
      /\ lclient # 0
      /\ calls[i] # <<>>
      /\ calls[i][Len(calls[i])].st = "failed"

C34_LaterListenReturns ==
  ((\E i \in DOMAIN listens : FailedInLoops(i))
   /\ Len(listens') = Len(listens) + 1)
  => /\ listens'[Len(listens')].pc = "done"
     /\ calls'[Len(listens')] = <<>>
     /\ IssuedNow = {}
     /\ lclient' = lclient

C34_NothingMoreIsSetUp ==
  (\E i \in DOMAIN listens : FailedInLoops(i))
  => \A c \in IssuedNow : Consuming(c.queue)

\* C34: once a setupQueue or consume call of listen has failed, listen has
\* failed with it and the listener still has its client; a listen call made
\* afterwards returns at once and issues no call; and no setupQueue or
\* consume call is issued any more for a queue that is not being consumed.
C34_FailedListenLeavesQueuesUnconsumed ==
  /\ []C34_KeepsClient
  /\ [][C34_LaterListenReturns]_vars
  /\ [][C34_NothingMoreIsSetUp]_vars

\* no reconnect attempt is scheduled or in progress
NoAttemptPending ==
  /\ timers = <<>>
  /\ \A r \in DOMAIN reconnects : reconnects[r].pc \in {"done", "failed"}

\* the last reconnect attempt failed
LastAttemptFailed ==
  reconnects # <<>> /\ reconnects[Len(reconnects)].pc = "failed"

\* reconnect attempt r fails in this step
AttemptFails(r) ==
  /\ r \in DOMAIN reconnects
  /\ reconnects[r].pc \in {"connect", "createChannel"}
  /\ reconnects'[r].pc = "failed"

C35_FailureIsSilent ==
  \A r \in DOMAIN reconnects :
    AttemptFails(r) =>
      /\ clientEvents' = clientEvents
      /\ timers' = timers

C35_StaysDisconnected ==
  (LastAttemptFailed /\ NoAttemptPending /\ errorEvents' = errorEvents)
  => /\ reconnects' = reconnects
     /\ timers' = timers
     /\ conns' = conns
     /\ clientEvents'["connected"] = clientEvents["connected"]

\* C35: a reconnect attempt that fails emits no event and schedules nothing;
\* once the last attempt has failed and none is pending, no attempt is made
\* as long as no further error event is received: no connection is opened
\* and 'connected' is not emitted, although every connect could succeed.
C35_FailedReconnectIsFinal ==
  /\ [][C35_FailureIsSilent]_vars
  /\ [][C35_StaysDisconnected]_vars

C35_Witness ==
  /\ Len(reconnects) = 1
  /\ reconnects[1].pc = "failed"
  /\ reconnects[1].conn # 0
  /\ NoAttemptPending
  /\ closePc = "idle"
  /\ clientEvents["connected"] = 1
  /\ clientEvents["connection_error"] = 1

\* the reconnect attempts that are scheduled or in progress
AttemptsPending ==
  Len(timers) +
  Cardinality({r \in DOMAIN reconnects :
                 reconnects[r].pc \in {"connect", "createChannel"}})

\* C36: at any time at most one reconnect attempt is scheduled or in
\* progress, and every connection the client opened, except its current one,
\* has been closed or has failed: no two connections of the client are live.
C36_OneAttemptOneConnection ==
  /\ AttemptsPending <= 1
  /\ \A c \in 1..conns : c # connection => ~Live(c)

\* C37: in the consume variant with a completion callback, every delivery
\* gets one ack or nack in total and never more: exactly one once its
\* handler has completed, whatever the handler did with the callback before
\* returning or throwing.
C37_CallbackAcksExactlyOnce ==
  \A i \in DOMAIN callbackDeliveries :
    LET d == callbackDeliveries[i]
    IN /\ d.acks + d.nacks <= 1
       /\ d.st = "done" => d.acks + d.nacks = 1

====
